---- MODULE Spec2Model ----
(***************************************************************************)
(* Storage fallback chain, session store of the browser analytics client.  *)
(*                                                                         *)
(* Strings are sequences of tokens (Ch: a piece of text, Num: the decimal  *)
(* digits of a number), so that formatting and parsing (JSON, the cookie   *)
(* string) are computed and not assumed to be inverse to each other.       *)
(* Time is Date.now() in milliseconds.                                     *)
(***************************************************************************)
EXTENDS Integers, Sequences, FiniteSets, TLC

VARIABLES
    constructed,      \* createStorageManager has run
    availableStores,  \* the closure's chain: a sequence of storage methods
    media,            \* contents of localStorage, sessionStorage, cookie jar, MemoryStore map
    now,              \* Date.now()
    ticks,            \* number of clock advances so far (bounded)
    uuids,            \* number of identifiers crypto.randomUUID() has produced
    call,             \* the last API call: operation and arguments
    ret,              \* its result
    tried,            \* the store operations the last StorageManager call made, in order
    smCalls,          \* the StorageManager calls the last session operation made, in order
    warned,           \* console.warn was called by the last operation
    established,      \* history: the identifier the session calls last established, and when
    initialized,      \* the click tracker's flag
    listeners,        \* the click listeners attached to the document
    added,            \* number of document.addEventListener calls the tracker has made
    initializeCalls,  \* number of initialize() calls so far (bounded)
    analytics,        \* window.analytics: 0 when absent, else the instance in the slot
    tracked,          \* the track calls the last operation made, in order
    created,          \* number of Analytics instances initTinybirdAnalytics has created
    pending,          \* the instances whose plugin has not been initialized yet, in order
    tinybird,         \* window.tinybirdAnalytics: the instance that created it, its configuration
    collected,        \* the tracking data the handler collected for the last click
    sent,             \* what the last sendEvent handed over: beacon calls, requests, console logs
    setting           \* a StorageManager.set call taken store by store: the store it tries next
                      \* (0 when none runs), the media when it began, its environment

vars == <<constructed, availableStores, media, now, ticks, uuids, call, ret, tried, smCalls, warned,
          established, initialized, listeners, added, initializeCalls, analytics, tracked,
          created, pending, tinybird, collected, sent, setting>>

\* the variables of the page outside the storage layer
pageVars == <<initialized, listeners, added, initializeCalls, analytics, tracked,
              created, pending, tinybird, collected, sent, setting>>

\* the variable of the set call taken store by store
stepVars == <<setting>>

\* the variable of sendEvent
sendVars == <<sent>>

\* the variables of initTinybirdAnalytics and of the plugin
initVars == <<created, pending, tinybird>>

-----------------------------------------------------------------------------
(* Bounds of the model *)

MaxTicks == 2
MaxUuids == 1
ClockStart == 1000

-----------------------------------------------------------------------------
(* Strings and nullable strings *)

Ch(c) == [c |-> c, n |-> 0]
Num(n) == [c |-> "#", n |-> n]

Null == [isNull |-> TRUE, s |-> <<>>]
Some(s) == [isNull |-> FALSE, s |-> s]

\* JavaScript truthiness of a `string | null`
Truthy(v) == ~v.isNull /\ Len(v.s) > 0

\* s starts with p at position i
MatchAt(s, p, i) ==
    /\ i + Len(p) - 1 <= Len(s)
    /\ \A j \in 1..Len(p) : s[i + j - 1] = p[j]

\* position of the first occurrence of sep in s at or after i, 0 when none
RECURSIVE IndexOf(_, _, _)
IndexOf(s, sep, i) ==
    IF i + Len(sep) - 1 > Len(s) THEN 0
    ELSE IF MatchAt(s, sep, i) THEN i
    ELSE IndexOf(s, sep, i + 1)

\* String.prototype.split(sep) for a non-empty separator
RECURSIVE Split(_, _)
Split(s, sep) ==
    LET i == IndexOf(s, sep, 1) IN
    IF i = 0 THEN <<s>>
    ELSE <<SubSeq(s, 1, i - 1)>> \o Split(SubSeq(s, i + Len(sep), Len(s)), sep)

-----------------------------------------------------------------------------
(* Storage methods, options, environment *)

Methods == {"localStorage", "sessionStorage", "cookie", "memory"}
WebMethods == {"localStorage", "sessionStorage"}
BrowserMedia == {"localStorage", "sessionStorage", "cookie"}

\* What a browser medium does when it is accessed:
\*   ok      every access works
\*   nowrite Web Storage: setItem throws (quota); cookie: assignments are ignored silently
\*   denied  every access throws (SecurityError); a Web Storage getter on window throws too
Modes == {"ok", "nowrite", "denied"}
Envs == [BrowserMedia -> Modes]
AllOk == [m \in BrowserMedia |-> "ok"]

\* the environments of a set that differ on the media of a chain
Range(seq) == {seq[i] : i \in 1..Len(seq)}
On(stores, envs) == {e \in envs : \A m \in BrowserMedia : m \notin Range(stores) => e[m] = "ok"}

\* environments that differ in what a read, a write, a removal does
\* (Web Storage: a read or removal fails only when denied, a write also when the quota is
\* exhausted; the cookie jar reads the same whether or not it ignores assignments)
ReadEnvs == [BrowserMedia -> {"ok", "denied"}]
WriteEnvs == {e \in Envs : \A m \in WebMethods : e[m] # "denied"}
RemoveEnvs == {e \in Envs : \A m \in WebMethods : e[m] # "nowrite"}

\* StorageOptions; given = FALSE is `options` undefined
NoOptions == [given |-> FALSE, hasExpiry |-> FALSE, expiry |-> 0, secure |-> FALSE, domain |-> <<>>]
ExpiryOption(e) == [given |-> TRUE, hasExpiry |-> TRUE, expiry |-> e, secure |-> FALSE, domain |-> <<>>]

\* options?.expiry is truthy
HasTruthyExpiry(options) == options.given /\ options.hasExpiry /\ options.expiry # 0

\* a Map / Storage object: a function on the keys present
Put(map, key, item) == [k \in (DOMAIN map) \cup {key} |-> IF k = key THEN item ELSE map[k]]
Delete(map, key) == [k \in (DOMAIN map) \ {key} |-> map[k]]
EmptyMap == [k \in {} |-> <<>>]

\* result of a store operation: the media after it, the boolean or value returned,
\* whether an exception left the method, whether the method caught one
Result(st, ok, val, thrown, caught) == [st |-> st, ok |-> ok, val |-> val, thrown |-> thrown, caught |-> caught]
Throw(st) == Result(st, FALSE, Null, TRUE, FALSE)

\* try { body } catch { return fallback }
TryCatch(r, ok, val) == IF r.thrown THEN Result(r.st, ok, val, FALSE, TRUE) ELSE r

-----------------------------------------------------------------------------
(* The browser's Web Storage objects (window.localStorage, window.sessionStorage) *)

\* Storage.getItem
getItem(m, st, e, key) ==
    IF e[m] = "denied" THEN Throw(st)
    ELSE Result(st, TRUE, IF key \in DOMAIN st[m] THEN Some(st[m][key]) ELSE Null, FALSE, FALSE)

\* Storage.setItem: throws QuotaExceededError when the quota is exhausted
setItem(m, st, e, key, value) ==
    IF e[m] # "ok" THEN Throw(st)
    ELSE Result([st EXCEPT ![m] = Put(st[m], key, value)], TRUE, Null, FALSE, FALSE)

\* Storage.removeItem
removeItem(m, st, e, key) ==
    IF e[m] = "denied" THEN Throw(st)
    ELSE Result([st EXCEPT ![m] = Delete(st[m], key)], TRUE, Null, FALSE, FALSE)

\* `'localStorage' in window && localStorage !== null`: reading the getter throws when denied
WebStorageProbe(m, st, e) ==
    IF e[m] = "denied" THEN Throw(st) ELSE Result(st, TRUE, Null, FALSE, FALSE)

-----------------------------------------------------------------------------
(* class LocalStorageStore *)

LocalStorageStore_get(st, e, key) ==
    TryCatch(getItem("localStorage", st, e, key), FALSE, Null)

\* the method without its try/catch
LocalStorageStore_set_nocatch(st, e, key, value, options) ==
    setItem("localStorage", st, e, key, value)

LocalStorageStore_set(st, e, key, value, options) ==
    TryCatch(setItem("localStorage", st, e, key, value), FALSE, Null)

LocalStorageStore_remove(st, e, key) ==
    TryCatch(removeItem("localStorage", st, e, key), FALSE, Null)

LocalStorageStore_isAvailable(st, e) ==
    TryCatch(WebStorageProbe("localStorage", st, e), FALSE, Null)

(* class SessionStorageStore *)

SessionStorageStore_get(st, e, key) ==
    TryCatch(getItem("sessionStorage", st, e, key), FALSE, Null)

SessionStorageStore_set(st, e, key, value, options) ==
    TryCatch(setItem("sessionStorage", st, e, key, value), FALSE, Null)

SessionStorageStore_remove(st, e, key) ==
    TryCatch(removeItem("sessionStorage", st, e, key), FALSE, Null)

SessionStorageStore_isAvailable(st, e) ==
    TryCatch(WebStorageProbe("sessionStorage", st, e), FALSE, Null)

-----------------------------------------------------------------------------
(* The browser's cookie jar behind document.cookie.                         *)
(* A jar entry is [value, session, expires]; a cookie with an expires date *)
(* is gone once the clock reaches that date.                               *)

CookieNames == <<"session-id", "attribution-data", "theme">>

CookieLive(jar, name, t) == name \in DOMAIN jar /\ (jar[name].session \/ t < jar[name].expires)

\* getter: "name=value; name=value" of the cookies alive at time t
RECURSIVE CookieString(_, _, _)
CookieString(jar, t, i) ==
    IF i > Len(CookieNames) THEN <<>>
    ELSE LET name == CookieNames[i]
             rest == CookieString(jar, t, i + 1)
         IN IF ~CookieLive(jar, name, t) THEN rest
            ELSE <<Ch(name), Ch("=")>> \o jar[name].value
                 \o (IF rest = <<>> THEN <<>> ELSE <<Ch(";"), Ch(" ")>> \o rest)

documentCookie_get(st, e, t) ==
    IF e["cookie"] = "denied" THEN Throw(st)
    ELSE Result(st, TRUE, Some(CookieString(st["cookie"], t, 1)), FALSE, FALSE)

\* the expires date among the attribute segments of an assigned cookie string, <<>> when none
RECURSIVE ExpiresAttribute(_, _)
ExpiresAttribute(segments, i) ==
    IF i > Len(segments) THEN <<>>
    ELSE IF Len(segments[i]) = 2 /\ segments[i][1] = Ch(" expires=") THEN <<segments[i][2].n>>
    ELSE ExpiresAttribute(segments, i + 1)

\* setter: the text before the first ';' is name=value, the rest are attributes;
\* an expires date that is not in the future deletes the cookie
documentCookie_set(st, e, t, str) ==
    IF e["cookie"] = "denied" THEN Throw(st)
    ELSE IF e["cookie"] = "nowrite" THEN Result(st, TRUE, Null, FALSE, FALSE)
    ELSE LET segments == Split(str, <<Ch(";")>>)
             pair == segments[1]
             eq == IndexOf(pair, <<Ch("=")>>, 1)
             name == pair[1].c
             value == SubSeq(pair, eq + 1, Len(pair))
             exp == ExpiresAttribute(segments, 2)
             jar == st["cookie"]
             jar2 == IF exp = <<>> THEN Put(jar, name, [value |-> value, session |-> TRUE, expires |-> 0])
                     ELSE IF exp[1] <= t THEN Delete(jar, name)
                     ELSE Put(jar, name, [value |-> value, session |-> FALSE, expires |-> exp[1]])
         IN Result([st EXCEPT !["cookie"] = jar2], TRUE, Null, FALSE, FALSE)

\* Date.prototype.toUTCString has a resolution of one second
toUTCString(t) == (t \div 1000) * 1000

(* class CookieStore *)

CookieStore_get_body(st, e, t, key) ==
    LET dc == documentCookie_get(st, e, t) IN
    IF dc.thrown THEN dc
    ELSE LET value == <<Ch(";"), Ch(" ")>> \o dc.val.s
             parts == Split(value, <<Ch(";"), Ch(" "), Ch(key), Ch("=")>>)
         IN IF Len(parts) = 2
            THEN LET first == Split(parts[Len(parts)], <<Ch(";")>>)[1]
                 IN Result(st, TRUE, IF first # <<>> THEN Some(first) ELSE Null, FALSE, FALSE)
            ELSE Result(st, TRUE, Null, FALSE, FALSE)

CookieStore_get(st, e, t, key) ==
    TryCatch(CookieStore_get_body(st, e, t, key), FALSE, Null)

\* a cookie write that adds the expiry option to the clock without converting it to milliseconds
CookieStore_set_body_unscaled(st, e, t, key, value, options) ==
    documentCookie_set(st, e, t,
        <<Ch(key), Ch("=")>> \o value
        \o (IF HasTruthyExpiry(options) THEN <<Ch(";"), Ch(" expires="), Num(toUTCString(t + options.expiry))>> ELSE <<>>)
        \o <<Ch(";"), Ch(" path=/")>>)

CookieStore_set_body(st, e, t, key, value, options) ==
    LET cookieValue1 == <<Ch(key), Ch("=")>> \o value
        cookieValue2 == IF HasTruthyExpiry(options)
                        THEN cookieValue1 \o <<Ch(";"), Ch(" expires="), Num(toUTCString(t + options.expiry * 1000))>>
                        ELSE cookieValue1
        cookieValue3 == cookieValue2 \o <<Ch(";"), Ch(" path=/")>>
        cookieValue4 == IF options.given /\ options.secure
                        THEN cookieValue3 \o <<Ch(";"), Ch(" secure")>>
                        ELSE cookieValue3
        cookieValue5 == IF options.given /\ options.domain # <<>>
                        THEN cookieValue4 \o <<Ch(";"), Ch(" domain=")>> \o options.domain
                        ELSE cookieValue4
    IN documentCookie_set(st, e, t, cookieValue5)

CookieStore_set(st, e, t, key, value, options) ==
    TryCatch(CookieStore_set_body(st, e, t, key, value, options), FALSE, Null)

CookieStore_remove(st, e, t, key) ==
    TryCatch(documentCookie_set(st, e, t,
                 <<Ch(key), Ch("="), Ch(";"), Ch(" expires="), Num(0), Ch(";"), Ch(" path=/"), Ch(";")>>),
             FALSE, Null)

\* `'document' in window && 'cookie' in document`: the `in` operator reads no getter
CookieStore_isAvailable(st, e) ==
    TryCatch(Result(st, TRUE, Null, FALSE, FALSE), FALSE, Null)

-----------------------------------------------------------------------------
(* class MemoryStore: a Map from key to {value, expiry} *)

DayMs == 24 * 60 * 60 * 1000

\* a MemoryStore.get that still returns an entry at the instant of its expiry
MemoryStore_get_late(st, t, key) ==
    LET storage == st["memory"] IN
    IF key \in DOMAIN storage /\ t <= storage[key].expiry
    THEN Result(st, TRUE, Some(storage[key].value), FALSE, FALSE)
    ELSE Result([st EXCEPT !["memory"] = Delete(storage, key)], TRUE, Null, FALSE, FALSE)

MemoryStore_get(st, t, key) ==
    LET storage == st["memory"] IN
    IF key \in DOMAIN storage /\ t < storage[key].expiry
    THEN Result(st, TRUE, Some(storage[key].value), FALSE, FALSE)
    ELSE Result([st EXCEPT !["memory"] = Delete(storage, key)], TRUE, Null, FALSE, FALSE)

MemoryStore_set(st, t, key, value, options) ==
    LET expiry == IF HasTruthyExpiry(options) THEN t + options.expiry * 1000 ELSE t + DayMs
    IN Result([st EXCEPT !["memory"] = Put(st["memory"], key, [value |-> value, expiry |-> expiry])],
              TRUE, Null, FALSE, FALSE)

\* Map.prototype.delete returns whether the key was present
MemoryStore_remove(st, key) ==
    Result([st EXCEPT !["memory"] = Delete(st["memory"], key)], key \in DOMAIN st["memory"], Null, FALSE, FALSE)

MemoryStore_isAvailable(st) == Result(st, TRUE, Null, FALSE, FALSE)

-----------------------------------------------------------------------------
(* interface Store, dispatched on the method of the stores Map *)

Store_get(m, st, e, t, key) ==
    CASE m = "localStorage" -> LocalStorageStore_get(st, e, key)
      [] m = "sessionStorage" -> SessionStorageStore_get(st, e, key)
      [] m = "cookie" -> CookieStore_get(st, e, t, key)
      [] m = "memory" -> MemoryStore_get(st, t, key)

Store_set(m, st, e, t, key, value, options) ==
    CASE m = "localStorage" -> LocalStorageStore_set(st, e, key, value, options)
      [] m = "sessionStorage" -> SessionStorageStore_set(st, e, key, value, options)
      [] m = "cookie" -> CookieStore_set(st, e, t, key, value, options)
      [] m = "memory" -> MemoryStore_set(st, t, key, value, options)

Store_remove(m, st, e, t, key) ==
    CASE m = "localStorage" -> LocalStorageStore_remove(st, e, key)
      [] m = "sessionStorage" -> SessionStorageStore_remove(st, e, key)
      [] m = "cookie" -> CookieStore_remove(st, e, t, key)
      [] m = "memory" -> MemoryStore_remove(st, key)

Store_isAvailable(m, st, e) ==
    CASE m = "localStorage" -> LocalStorageStore_isAvailable(st, e)
      [] m = "sessionStorage" -> SessionStorageStore_isAvailable(st, e)
      [] m = "cookie" -> CookieStore_isAvailable(st, e)
      [] m = "memory" -> MemoryStore_isAvailable(st)


-----------------------------------------------------------------------------
(* createStorageManager(config) *)

\* TinybirdAnalyticsConfig, the three fields read here; storage = "" and
\* enableMemoryFallback = "undefined" stand for a field that is not given
ConfigOf(storage, hasFallbacks, storageFallbacks, enableMemoryFallback) ==
    [storage |-> storage, hasFallbacks |-> hasFallbacks,
     storageFallbacks |-> storageFallbacks, enableMemoryFallback |-> enableMemoryFallback]

\* const methods = [primary, ...fallbacks]; if (enableMemoryFallback) methods.push('memory')
\* a chain that leaves the memory fallback out
methodsOf_nofallback(config) ==
    <<IF config.storage # "" THEN config.storage ELSE "localStorage">>
    \o (IF config.hasFallbacks THEN config.storageFallbacks ELSE <<"sessionStorage", "cookie">>)

methodsOf(config) ==
    LET primary == IF config.storage # "" THEN config.storage ELSE "localStorage"
        fallbacks == IF config.hasFallbacks THEN config.storageFallbacks ELSE <<"sessionStorage", "cookie">>
        enableMemoryFallback == IF config.enableMemoryFallback = "undefined" THEN TRUE
                                ELSE config.enableMemoryFallback = "true"
    IN <<primary>> \o fallbacks \o (IF enableMemoryFallback THEN <<"memory">> ELSE <<>>)

\* methods.map(...).filter(({ store }) => store?.isAvailable()).map(...)
RECURSIVE filterAvailable(_, _, _, _)
filterAvailable(methods, i, st, e) ==
    IF i > Len(methods) THEN <<>>
    ELSE (IF Store_isAvailable(methods[i], st, e).ok THEN <<methods[i]>> ELSE <<>>)
         \o filterAvailable(methods, i + 1, st, e)

\* the chain without the availability filter
createStorageManager_nofilter(config, st, e) == methodsOf(config)

createStorageManager(config, st, e) == filterAvailable(methodsOf(config), 1, st, e)

\* what one store operation of a StorageManager call did
Attempt(m, r) == [method |-> m, ok |-> r.ok, val |-> r.val, caught |-> r.caught]

\* result of a StorageManager call
SMResult(st, ok, val, thrown, attempts) ==
    [st |-> st, ok |-> ok, val |-> val, thrown |-> thrown, tried |-> attempts]

\* the result of the rest of a loop, with the attempt made before it
Attempted(attempt, rest) == [rest EXCEPT !.tried = <<attempt>> \o @]

\* get(key): for (const store of availableStores) { const value = store.get(key); if (value) return value }
RECURSIVE get_loop(_, _, _, _, _, _)
RECURSIVE get_value(_, _, _, _, _, _)

\* the loop from store i on
get_loop(stores, i, st, e, t, key) ==
    IF i > Len(stores) THEN SMResult(st, FALSE, Null, FALSE, <<>>)
    ELSE get_value(stores, i, Store_get(stores[i], st, e, t, key), e, t, key)

\* the loop body once store i's get has returned r: if (value) return value
get_value(stores, i, r, e, t, key) ==
    IF r.thrown THEN SMResult(r.st, FALSE, Null, TRUE, <<Attempt(stores[i], r)>>)
    ELSE IF Truthy(r.val) THEN SMResult(r.st, FALSE, r.val, FALSE, <<Attempt(stores[i], r)>>)
    ELSE Attempted(Attempt(stores[i], r), get_loop(stores, i + 1, r.st, e, t, key))

\* a get that keeps looking and returns the value of the last store that has one
RECURSIVE get_loop_last(_, _, _, _, _, _)
get_loop_last(stores, i, st, e, t, key) ==
    IF i > Len(stores) THEN SMResult(st, FALSE, Null, FALSE, <<>>)
    ELSE LET r == Store_get(stores[i], st, e, t, key)
             rest == get_loop_last(stores, i + 1, r.st, e, t, key)
         IN SMResult(rest.st, FALSE, IF Truthy(rest.val) THEN rest.val ELSE r.val, FALSE,
                     <<Attempt(stores[i], r)>> \o rest.tried)

StorageManager_get_last(stores, st, e, t, key) == get_loop_last(stores, 1, st, e, t, key)

StorageManager_get(stores, st, e, t, key) == get_loop(stores, 1, st, e, t, key)

\* set(key, value, options): return true at the first store whose set returns true
RECURSIVE set_loop(_, _, _, _, _, _, _, _)
RECURSIVE set_success(_, _, _, _, _, _, _, _)

\* the loop from store i on
set_loop(stores, i, st, e, t, key, value, options) ==
    IF i > Len(stores) THEN SMResult(st, FALSE, Null, FALSE, <<>>)
    ELSE set_success(stores, i, Store_set(stores[i], st, e, t, key, value, options), e, t, key, value, options)

\* the loop body once store i's set has returned r: if (store.set(...)) return true
set_success(stores, i, r, e, t, key, value, options) ==
    IF r.thrown THEN SMResult(r.st, FALSE, Null, TRUE, <<Attempt(stores[i], r)>>)
    ELSE IF r.ok THEN SMResult(r.st, TRUE, Null, FALSE, <<Attempt(stores[i], r)>>)
    ELSE Attempted(Attempt(stores[i], r), set_loop(stores, i + 1, r.st, e, t, key, value, options))

\* a set that writes to every store
RECURSIVE set_loop_all(_, _, _, _, _, _, _, _)
set_loop_all(stores, i, st, e, t, key, value, options) ==
    IF i > Len(stores) THEN SMResult(st, FALSE, Null, FALSE, <<>>)
    ELSE LET r == Store_set(stores[i], st, e, t, key, value, options)
             rest == set_loop_all(stores, i + 1, r.st, e, t, key, value, options)
         IN SMResult(rest.st, r.ok \/ rest.ok, Null, FALSE, <<Attempt(stores[i], r)>> \o rest.tried)

StorageManager_set_all(stores, st, e, t, key, value, options) == set_loop_all(stores, 1, st, e, t, key, value, options)

StorageManager_set(stores, st, e, t, key, value, options) == set_loop(stores, 1, st, e, t, key, value, options)

\* remove(key): let removed = false; for every store: if (store.remove(key)) removed = true
RECURSIVE remove_loop(_, _, _, _, _, _, _)
RECURSIVE remove_removed(_, _, _, _, _, _, _)

\* the loop from store i on
remove_loop(stores, i, st, e, t, key, removed) ==
    IF i > Len(stores) THEN SMResult(st, removed, Null, FALSE, <<>>)
    ELSE remove_removed(stores, i, Store_remove(stores[i], st, e, t, key), e, t, key, removed)

\* the loop body once store i's remove has returned r: if (store.remove(key)) removed = true
remove_removed(stores, i, r, e, t, key, removed) ==
    IF r.thrown THEN SMResult(r.st, FALSE, Null, TRUE, <<Attempt(stores[i], r)>>)
    ELSE Attempted(Attempt(stores[i], r), remove_loop(stores, i + 1, r.st, e, t, key, removed \/ r.ok))

\* a remove that stops at the first store whose removal succeeds
RECURSIVE remove_loop_first(_, _, _, _, _, _)
remove_loop_first(stores, i, st, e, t, key) ==
    IF i > Len(stores) THEN SMResult(st, FALSE, Null, FALSE, <<>>)
    ELSE LET r == Store_remove(stores[i], st, e, t, key) IN
         IF r.ok THEN SMResult(r.st, TRUE, Null, FALSE, <<Attempt(stores[i], r)>>)
         ELSE LET rest == remove_loop_first(stores, i + 1, r.st, e, t, key)
              IN SMResult(rest.st, rest.ok, Null, FALSE, <<Attempt(stores[i], r)>> \o rest.tried)

StorageManager_remove_first(stores, st, e, t, key) == remove_loop_first(stores, 1, st, e, t, key)

StorageManager_remove(stores, st, e, t, key) == remove_loop(stores, 1, st, e, t, key, FALSE)

\* isAvailable(method): stores.get(method)?.isAvailable() ?? false, probed at call time
StorageManager_isAvailable(method, st, e) ==
    IF method \in Methods THEN Store_isAvailable(method, st, e).ok ELSE FALSE

-----------------------------------------------------------------------------
(* Inputs *)

STORAGE_KEY == "session-id"
ATTRIBUTION_STORAGE_KEY == "attribution-data"

\* the keys of the stored items
Keys == {STORAGE_KEY}

\* values handed to StorageManager.set directly: the empty string, a plain text,
\* a text holding a ';'
Values == {<<>>, <<Ch("v")>>, <<Ch("v"), Ch(";"), Ch("w")>>}

\* options handed to StorageManager.set directly
OptionSet == {NoOptions, ExpiryOption(0), ExpiryOption(1800)}
ChainOptions == {NoOptions}

\* configurations handed to createStorageManager
Configs ==
    { ConfigOf("", FALSE, <<>>, "undefined"),
      ConfigOf("cookie", TRUE, <<"localStorage">>, "false"),
      ConfigOf("memory", TRUE, <<>>, "undefined") }

\* the configuration whose chain is the MemoryStore alone
MemoryOnly == ConfigOf("memory", TRUE, <<>>, "false")

SessionMs == 30 * 60 * 1000

\* clock advances
TickSteps == {1, SessionMs - 1, DayMs - 1}

-----------------------------------------------------------------------------
(* State *)

\* window.location and document.referrer: the query string as its decoded name/value pairs
Param(name, value) == [name |-> name, value |-> value]
Location(search, pathname, referrer) == [search |-> search, pathname |-> pathname, referrer |-> referrer]
NoLocation == Location(<<>>, <<>>, <<>>)

\* TinybirdPluginConfig: token, host and domain (Null when not given), enableClickTracking,
\* storage ("" when not given)
PluginConfig(token, host, domain, enableClickTracking, storage) ==
    [token |-> token, host |-> host, domain |-> domain,
     enableClickTracking |-> enableClickTracking, storage |-> storage]
NoConfig == PluginConfig(Null, Null, Null, FALSE, "")

NoArgs == [op |-> "none", key |-> "", value |-> <<>>, options |-> NoOptions, method |-> "",
           location |-> NoLocation, path |-> <<>>, dom |-> <<>>, target |-> 0,
           config |-> NoConfig, manager |-> ConfigOf("", FALSE, <<>>, "undefined"),
           eventName |-> "", eventData |-> EmptyMap, e |-> AllOk,
           nav |-> [userAgent |-> "", locale |-> "", country |-> "", sendBeacon |-> "missing"]]
NoRet == [thrown |-> FALSE, ok |-> FALSE, val |-> Null]
Ret(r) == [thrown |-> r.thrown, ok |-> r.ok, val |-> r.val]

\* an unrelated cookie of the page shares the jar
EmptyMedia ==
    [localStorage |-> EmptyMap, sessionStorage |-> EmptyMap, memory |-> EmptyMap,
     cookie |-> Put(EmptyMap, "theme", [value |-> <<Ch("dark")>>, session |-> TRUE, expires |-> 0])]

\* no identifier established yet
NoEstablished == [some |-> FALSE, id |-> <<>>, at |-> 0, intact |-> FALSE]

Init ==
    /\ constructed = FALSE
    /\ availableStores = <<>>
    /\ media = EmptyMedia
    /\ now = ClockStart
    /\ ticks = 0
    /\ uuids = 0
    /\ call = NoArgs
    /\ ret = NoRet
    /\ tried = <<>>
    /\ smCalls = <<>>
    /\ warned = FALSE
    /\ established = NoEstablished
    /\ initialized = FALSE
    /\ listeners = {}
    /\ added = 0
    /\ initializeCalls = 0
    /\ analytics = 0
    /\ tracked = <<>>
    /\ created = 0
    /\ pending = <<>>
    /\ tinybird = [id |-> 0, config |-> NoConfig]
    /\ setting = [i |-> 0, before |-> EmptyMedia, e |-> AllOk]
    /\ collected = EmptyMap
    /\ sent = <<>>

\* createStorageManager(config) in an environment e
Construct(config, e) ==
    /\ ~constructed
    /\ constructed' = TRUE
    /\ availableStores' = createStorageManager(config, media, e)
    /\ call' = [NoArgs EXCEPT !.op = "construct", !.manager = config]
    /\ ret' = NoRet
    /\ tried' = <<>>
    /\ smCalls' = <<>>
    /\ warned' = FALSE
    /\ UNCHANGED <<media, now, ticks, uuids, established>>
    /\ UNCHANGED pageVars

\* the clock advances by d milliseconds
Tick(d) ==
    /\ ticks < MaxTicks
    /\ now' = now + d
    /\ ticks' = ticks + 1
    /\ call' = [NoArgs EXCEPT !.op = "tick"]
    /\ ret' = NoRet
    /\ tried' = <<>>
    /\ smCalls' = <<>>
    /\ warned' = FALSE
    /\ UNCHANGED <<constructed, availableStores, media, uuids, established>>
    /\ UNCHANGED pageVars

\* storageManager.get(key) in an environment e
Get(key, e) ==
    /\ constructed
    /\ \E r \in {StorageManager_get(availableStores, media, e, now, key)} :
       /\ media' = r.st
       /\ ret' = Ret(r)
       /\ tried' = r.tried
    /\ call' = [NoArgs EXCEPT !.op = "get", !.key = key]
    /\ smCalls' = <<>>
    /\ warned' = FALSE
    /\ UNCHANGED <<constructed, availableStores, now, ticks, uuids, established>>
    /\ UNCHANGED pageVars

\* storageManager.set(key, value, options) in an environment e
Set_call(key, value, options, e) ==
    /\ constructed
    /\ \E r \in {StorageManager_set(availableStores, media, e, now, key, value, options)} :
       /\ media' = r.st
       /\ ret' = Ret(r)
       /\ tried' = r.tried
    /\ call' = [NoArgs EXCEPT !.op = "set", !.key = key, !.value = value, !.options = options]
    /\ smCalls' = <<>>
    /\ warned' = FALSE
    /\ UNCHANGED <<constructed, availableStores, now, ticks, uuids>>
    /\ UNCHANGED pageVars

Set(key, value, options, e) == Set_call(key, value, options, e) /\ UNCHANGED established

\* storageManager.remove(key) in an environment e
Remove_call(key, e) ==
    /\ constructed
    /\ \E r \in {StorageManager_remove(availableStores, media, e, now, key)} :
       /\ media' = r.st
       /\ ret' = Ret(r)
       /\ tried' = r.tried
    /\ call' = [NoArgs EXCEPT !.op = "remove", !.key = key]
    /\ smCalls' = <<>>
    /\ warned' = FALSE
    /\ UNCHANGED <<constructed, availableStores, now, ticks, uuids>>
    /\ UNCHANGED pageVars

Remove(key, e) == Remove_call(key, e) /\ UNCHANGED established

\* storageManager.isAvailable(method) in an environment e
IsAvailable(method, e) ==
    /\ constructed
    /\ ret' = [NoRet EXCEPT !.ok = StorageManager_isAvailable(method, media, e)]
    /\ call' = [NoArgs EXCEPT !.op = "isAvailable", !.method = method]
    /\ tried' = <<>>
    /\ smCalls' = <<>>
    /\ warned' = FALSE
    /\ UNCHANGED <<constructed, availableStores, media, now, ticks, uuids, established>>
    /\ UNCHANGED pageVars

NextStorage ==
    \/ \E config \in Configs, e \in ReadEnvs : Construct(config, e)
    \/ \E key \in Keys, e \in ReadEnvs : Get(key, e)
    \/ \E key \in Keys, value \in Values, options \in ChainOptions, e \in WriteEnvs : Set(key, value, options, e)
    \/ \E key \in Keys, e \in RemoveEnvs : Remove(key, e)
    \/ \E method \in Methods, e \in {AllOk, [m \in BrowserMedia |-> "denied"]} : IsAvailable(method, e)

SpecStorage == Init /\ [][NextStorage]_vars

-----------------------------------------------------------------------------
(* StorageManager.set taken one store at a time, to stop it between two stores *)

\* what the loop of set does once store i's set has returned r: the store it goes on
\* with, 0 when the call has returned
Step(next, ok, thrown) == [next |-> next, ok |-> ok, thrown |-> thrown]

\* a loop that goes on to the next store after a store has accepted the value
set_step_all(stores, i, r) ==
    IF r.thrown THEN Step(0, FALSE, TRUE)
    ELSE IF i = Len(stores) THEN Step(0, r.ok, FALSE)
    ELSE Step(i + 1, FALSE, FALSE)

\* for (const store of availableStores) { if (store.set(key, value, options)) return true }
\* return false
set_step(stores, i, r) ==
    IF r.thrown THEN Step(0, FALSE, TRUE)
    ELSE IF r.ok THEN Step(0, TRUE, FALSE)
    ELSE IF i = Len(stores) THEN Step(0, FALSE, FALSE)
    ELSE Step(i + 1, FALSE, FALSE)

\* storageManager.set(key, value, options) is called in an environment e
SetBegin(key, value, options, e) ==
    /\ constructed
    /\ setting.i = 0
    /\ setting' = [i |-> IF availableStores = <<>> THEN 0 ELSE 1, before |-> media, e |-> e]
    /\ call' = [NoArgs EXCEPT !.op = "set.begin", !.key = key, !.value = value, !.options = options]
    /\ ret' = NoRet
    /\ tried' = <<>>
    /\ smCalls' = <<>>
    /\ warned' = FALSE
    /\ UNCHANGED <<constructed, availableStores, media, now, ticks, uuids, established>>
    /\ UNCHANGED <<initialized, listeners, added, initializeCalls, analytics, tracked, collected, sent, initVars>>

\* the running call tries its next store
SetAttempt ==
    /\ setting.i > 0
    /\ \E r \in {Store_set(availableStores[setting.i], media, setting.e, now,
                           call.key, call.value, call.options)} :
          /\ media' = r.st
          /\ tried' = Append(tried, Attempt(availableStores[setting.i], r))
          /\ \E s \in {set_step(availableStores, setting.i, r)} :
                /\ setting' = [setting EXCEPT !.i = s.next]
                /\ ret' = [NoRet EXCEPT !.ok = s.ok, !.thrown = s.thrown]
    /\ call' = [call EXCEPT !.op = "set.attempt"]
    /\ smCalls' = <<>>
    /\ warned' = FALSE
    /\ UNCHANGED <<constructed, availableStores, now, ticks, uuids, established>>
    /\ UNCHANGED <<initialized, listeners, added, initializeCalls, analytics, tracked, collected, sent, initVars>>

\* the page goes away while the call runs: the call never goes on
SetInterrupt ==
    /\ setting.i > 0
    /\ setting' = [setting EXCEPT !.i = 0]
    /\ call' = [call EXCEPT !.op = "set.interrupt"]
    /\ ret' = NoRet
    /\ smCalls' = <<>>
    /\ warned' = FALSE
    /\ UNCHANGED <<constructed, availableStores, media, now, ticks, uuids, tried, established>>
    /\ UNCHANGED <<initialized, listeners, added, initializeCalls, analytics, tracked, collected, sent, initVars>>

NextSetSteps ==
    \/ \E config \in Configs : Construct(config, AllOk)
    \/ \E key \in Keys, value \in Values, options \in ChainOptions, e \in WriteEnvs :
          SetBegin(key, value, options, e)
    \/ SetAttempt
    \/ SetInterrupt

SpecSetSteps == Init /\ [][NextSetSteps]_vars

\* the media whose content is not what it was when the last set call began
Modified == {m \in Methods : media[m] # setting.before[m]}

\* C29: single-write: at every point of a StorageManager.set call taken store by store,
\* also when the call is stopped between two stores, at most one medium has been modified
\* by the call, the attempts before the last made no change, and a call that runs to its
\* end leaves what the whole set leaves.
C29_SingleWrite ==
    /\ [](Cardinality(Modified) <= 1)
    /\ [](\A i \in 1..(Len(tried) - 1) : call.op \in {"set.attempt", "set.interrupt"} => ~tried[i].ok)
    /\ [][(call'.op = "set.attempt" /\ setting'.i = 0) =>
             \A r \in {StorageManager_set(availableStores, setting.before, setting.e, now,
                                          call.key, call.value, call.options)} :
                media' = r.st /\ tried' = r.tried /\ ret'.ok = r.ok /\ ret'.thrown = r.thrown]_vars

\* a call on a chain of three stores or more stopped after its first store refused the
\* value: no medium is modified
C29_Witness ==
    /\ call.op = "set.interrupt"
    /\ Len(availableStores) >= 3
    /\ Len(tried) = 1 /\ ~tried[1].ok
    /\ call.value # <<>>
    /\ Modified = {}

\* a call that ran to its end after two stores refused the value: the third store alone
\* is modified
C29_Witness_Fallback ==
    /\ call.op = "set.attempt" /\ setting.i = 0
    /\ Len(tried) = 3 /\ ~tried[1].ok /\ ~tried[2].ok /\ tried[3].ok
    /\ Modified = {tried[3].method}


-----------------------------------------------------------------------------
(* Properties of the Storage Abstraction *)

\* store m refuses a write in environment e: its set returns false
Rejects(m, e) == (m \in WebMethods /\ e[m] # "ok") \/ (m = "cookie" /\ e[m] = "denied")

\* what store m holds for key as a reader sees it at time t: a medium that cannot be
\* read and an entry past its expiry count as absent
Held(m, st, e, t, key) ==
    CASE m \in WebMethods ->
           IF e[m] # "denied" /\ key \in DOMAIN st[m] THEN Some(st[m][key]) ELSE Null
      [] m = "cookie" ->
           IF e[m] # "denied" /\ CookieLive(st[m], key, t) /\ st[m][key].value # <<>>
           THEN Some(st[m][key].value) ELSE Null
      [] m = "memory" ->
           IF key \in DOMAIN st[m] /\ t < st[m][key].expiry THEN Some(st[m][key].value) ELSE Null

\* the positions of the chain whose store holds a non-empty value
NonEmptyAt(stores, st, e, t, key) == {i \in 1..Len(stores) : Truthy(Held(stores[i], st, e, t, key))}

Min(S) == CHOOSE x \in S : \A y \in S : x <= y

\* the methods of the attempts of the last call
TriedMethods == [i \in 1..Len(tried) |-> tried[i].method]

\* C1: when stores 1..k-1 of the chain reject a write and store k accepts it, set returns
\* true and no store other than store k is modified by the call.
C1_SetWritesOnlyFirstAccepting ==
    [][\A key \in Keys, value \in Values, options \in ChainOptions :
          (call'.op = "set" /\ call'.key = key /\ call'.value = value /\ call'.options = options) =>
             \A e \in WriteEnvs : Set(key, value, options, e) =>
                \A k \in 1..Len(availableStores) :
                   ((\A j \in 1..(k - 1) : Rejects(availableStores[j], e)) /\ ~Rejects(availableStores[k], e)) =>
                      /\ ret'.ok /\ ~ret'.thrown
                      /\ \A m \in Methods : m # availableStores[k] => media'[m] = media[m]]_vars

\* a set whose first two stores rejected the write and whose third store took it, the first
\* store keeping another value
C1_Witness ==
    /\ call.op = "set" /\ ret.ok /\ Len(tried) = 3
    /\ ~tried[1].ok /\ ~tried[2].ok /\ tried[3].ok
    /\ call.key \in DOMAIN media[tried[1].method]
    /\ media[tried[1].method][call.key] # call.value
    /\ call.value # <<>>

\* C2: get returns the value of the first store of the chain that holds a non-empty value
\* for the key, and null when no store of the chain does.
C2_GetFirstNonEmpty ==
    [][\A key \in Keys : (call'.op = "get" /\ call'.key = key) =>
          \A e \in ReadEnvs : Get(key, e) =>
             LET S == NonEmptyAt(availableStores, media, e, now, key) IN
             /\ ~ret'.thrown
             /\ ret'.val = IF S = {} THEN Null ELSE Held(availableStores[Min(S)], media, e, now, key)]_vars

\* a get that passed a store holding the empty string and returned the value of a later
\* store, while a store further down the chain holds another value
C2_Witness ==
    /\ call.op = "get" /\ Truthy(ret.val) /\ Len(tried) = 2
    /\ tried[1].val = Some(<<>>)
    /\ Len(availableStores) = 4
    /\ call.key \in DOMAIN media["memory"]
    /\ media["memory"][call.key].value \notin {<<>>, ret.val.s}

\* C3: remove attempts the removal on every store of the chain, in order, and returns true
\* exactly when one of the removals returned true; a Web Storage or memory store whose
\* removal returned true no longer holds the key.
C3_RemoveTriesAll ==
    call.op = "remove" =>
       /\ TriedMethods = availableStores
       /\ ret.ok <=> (\E i \in 1..Len(tried) : tried[i].ok)
       /\ \A i \in 1..Len(tried) :
             (tried[i].ok /\ tried[i].method # "cookie") => call.key \notin DOMAIN media[tried[i].method]

\* a remove whose first store succeeded and which went on to the other three, one of them failing
C3_Witness ==
    /\ call.op = "remove" /\ ret.ok /\ Len(tried) = 4
    /\ tried[1].ok /\ ~tried[2].ok /\ tried[3].ok

\* the chain createStorageManager is to build: primary, fallbacks, memory when enabled,
\* without the stores that are unavailable in environment e
ExpectedMethods(config) ==
    <<IF config.storage = "" THEN "localStorage" ELSE config.storage>>
    \o (IF config.hasFallbacks THEN config.storageFallbacks ELSE <<"sessionStorage", "cookie">>)
    \o (IF config.enableMemoryFallback = "false" THEN <<>> ELSE <<"memory">>)

AvailableIn(m, e) == m \in WebMethods => e[m] # "denied"

RECURSIVE Keep(_, _)
Keep(methods, e) ==
    IF methods = <<>> THEN <<>>
    ELSE (IF AvailableIn(Head(methods), e) THEN <<Head(methods)>> ELSE <<>>) \o Keep(Tail(methods), e)

IsPrefix(p, s) == Len(p) <= Len(s) /\ \A i \in 1..Len(p) : p[i] = s[i]

\* C4: the chain is the configured primary, the fallbacks in order, then memory when
\* enabled, without the stores unavailable at construction; it never changes afterwards,
\* and every get, set and remove goes down that chain, whatever the media do at call time.
C4_ChainFixedAtConstruction ==
    [][/\ \A config \in Configs, e \in ReadEnvs :
             Construct(config, e) => availableStores' = Keep(ExpectedMethods(config), e)
       /\ constructed => availableStores' = availableStores
       /\ call'.op \in {"get", "set", "remove"} =>
             /\ IsPrefix([i \in 1..Len(tried') |-> tried'[i].method], availableStores)
             /\ (call'.op = "remove" \/ (call'.op = "get" /\ ~Truthy(ret'.val)) \/ (call'.op = "set" /\ ~ret'.ok))
                    => Len(tried') = Len(availableStores)]_vars

\* sessionStorage was unavailable at construction and is left out; localStorage, available
\* then, throws now and is still the first store tried
C4_Witness ==
    /\ availableStores = <<"localStorage", "cookie", "memory">>
    /\ call.op = "get" /\ Len(tried) = 3
    /\ tried[1].method = "localStorage" /\ tried[1].caught

\* C5: get, set, remove and isAvailable never throw; a store whose medium threw reports
\* absent (get) or false (set, remove); set returns false only when every store of the
\* chain was tried and returned false.
C5_NoFailurePropagates ==
    /\ ~ret.thrown
    /\ \A i \in 1..Len(tried) : tried[i].caught => (~tried[i].ok /\ tried[i].val = Null)
    /\ (call.op = "set" /\ ~ret.ok) =>
          (TriedMethods = availableStores /\ \A i \in 1..Len(tried) : ~tried[i].ok)

\* a set that every store of a two-store chain rejected by throwing
C5_Witness ==
    /\ call.op = "set" /\ ~ret.ok /\ Len(tried) = 2
    /\ tried[1].caught /\ tried[2].caught


-----------------------------------------------------------------------------
(* The MemoryStore alone, with the clock *)

NextMemory ==
    \/ \E e \in {AllOk} : Construct(MemoryOnly, e)
    \/ \E d \in TickSteps : Tick(d)
    \/ \E key \in Keys : Get(key, AllOk)
    \/ \E key \in Keys, value \in Values, options \in OptionSet : Set(key, value, options, AllOk)
    \/ \E key \in Keys : Remove(key, AllOk)
    \/ IsAvailable("memory", AllOk)

SpecMemory == Init /\ [][NextMemory]_vars

\* C6: the in-memory store is always available, and every set and every remove on it
\* returns true.
C6_MemoryNeverFails ==
    /\ (call.op = "isAvailable" /\ call.method = "memory") => ret.ok
    /\ call.op \in {"set", "remove"} =>
          \A i \in 1..Len(tried) : tried[i].method = "memory" => tried[i].ok

\* the expiry of an entry written at time t with the given options: t + e seconds for an
\* expiry option e, t + 24 hours without one; zeroIsNone makes an option of 0 count as none
RuleExpiry(options, t, zeroIsNone) ==
    IF options.given /\ options.hasExpiry /\ (zeroIsNone => options.expiry # 0)
    THEN t + options.expiry * 1000 ELSE t + 24 * 60 * 60 * 1000

\* the statement of C7 for an expiry rule: a set stores the value with that expiry; a
\* read before the expiry returns the value and changes nothing, a read from the expiry
\* on returns null and deletes the entry; an entry changes or disappears only by a set, a
\* remove, or a read from its expiry on
MemoryExpiryRule(zeroIsNone) ==
    LET mem == media["memory"]
        memAfter == media'["memory"]
    IN /\ \A key \in Keys, value \in Values, options \in OptionSet :
             (call'.op = "set" /\ call'.key = key /\ call'.value = value /\ call'.options = options) =>
                /\ key \in DOMAIN memAfter
                /\ memAfter[key] = [value |-> value, expiry |-> RuleExpiry(options, now, zeroIsNone)]
       /\ \A key \in DOMAIN mem :
             (call'.op = "get" /\ call'.key = key) =>
                IF now < mem[key].expiry
                THEN tried'[1].val = Some(mem[key].value) /\ media' = media
                ELSE tried'[1].val = Null /\ ret'.val = Null /\ key \notin DOMAIN memAfter
       /\ \A key \in DOMAIN mem :
             (key \notin DOMAIN memAfter \/ memAfter[key] # mem[key]) =>
                \/ call'.op \in {"set", "remove"}
                \/ call'.op = "get" /\ now >= mem[key].expiry

\* C7 as stated: the expiry is t + e seconds for every expiry option e.
C7_MemoryExpiry_AsStated == [][MemoryExpiryRule(FALSE)]_vars

\* The rule MemoryStore follows: the expiry is t + e seconds for an expiry option e other
\* than 0, and t + 24 hours when no expiry option is given or the option is 0.
C7_MemoryExpiry == [][MemoryExpiryRule(TRUE)]_vars

\* a read one millisecond before the expiry of an entry written with a 30 minute expiry,
\* which returned the value and left the entry in place
C7_Witness ==
    /\ call.op = "get" /\ Len(tried) = 1 /\ Truthy(tried[1].val)
    /\ call.key \in DOMAIN media["memory"]
    /\ media["memory"][call.key].expiry = now + 1
    /\ now = ClockStart + 1800 * 1000 - 1


-----------------------------------------------------------------------------
(* JSON text of flat objects.  A member name is one token, a string value is *)
(* its tokens between two quote tokens Ch("Q"), a number is a Num token.     *)

JsonString(str) == <<Ch("Q")>> \o str \o <<Ch("Q")>>

\* JSON.stringify({ value, expiry })
JSON_stringify_SessionItem(value, expiry) ==
    <<Ch("{"), Ch("value"), Ch(":")>> \o JsonString(value)
    \o <<Ch(","), Ch("expiry"), Ch(":"), Num(expiry), Ch("}")>>

JsonStr(str) == [isNum |-> FALSE, n |-> 0, s |-> str]
JsonNum(n) == [isNum |-> TRUE, n |-> n, s |-> <<>>]
ParseError == [ok |-> FALSE, isObject |-> FALSE, fields |-> EmptyMap]
Parsed(isObject, fields) == [ok |-> TRUE, isObject |-> isObject, fields |-> fields]

JsonStructural == {"{", "}", ":", ",", "Q", "#"}

\* the members of an object from position i on, up to the closing brace that ends the text
RECURSIVE ParseMembers(_, _, _)
ParseMembers(s, i, acc) ==
    IF i + 3 > Len(s) \/ s[i].c \in JsonStructural \/ s[i + 1] # Ch(":") THEN ParseError
    ELSE LET close == IF s[i + 2] = Ch("Q") THEN IndexOf(s, <<Ch("Q")>>, i + 3) ELSE 0
             isStr == s[i + 2] = Ch("Q") /\ close # 0
             isNum == s[i + 2].c = "#"
             next == IF isStr THEN close + 1 ELSE i + 3
             item == IF isStr THEN JsonStr(SubSeq(s, i + 3, close - 1)) ELSE JsonNum(s[i + 2].n)
         IN IF ~(isStr \/ isNum) \/ next > Len(s) THEN ParseError
            ELSE IF s[next] = Ch("}") /\ next = Len(s) THEN Parsed(TRUE, Put(acc, s[i].c, item))
            ELSE IF s[next] = Ch(",") THEN ParseMembers(s, next + 1, Put(acc, s[i].c, item))
            ELSE ParseError

\* JSON.parse: ok = FALSE is a SyntaxError
JSON_parse(s) ==
    IF s = <<Ch("{"), Ch("}")>> THEN Parsed(TRUE, EmptyMap)
    ELSE IF Len(s) >= 1 /\ s[1] = Ch("{") THEN ParseMembers(s, 2, EmptyMap)
    ELSE IF s = <<Ch("null")>> \/ (Len(s) = 1 /\ s[1].c = "#") THEN Parsed(FALSE, EmptyMap)
    ELSE ParseError

-----------------------------------------------------------------------------
(* session-manager.ts *)

\* crypto.randomUUID(): the n-th identifier produced, never one produced before
_uuidv4(n) == <<[c |-> "uuid", n |-> n]>>

NoSession == [some |-> FALSE, value |-> JsonStr(<<>>), expiry |-> JsonNum(0)]

\* parseSessionData(data): the SessionItem, or null on a SyntaxError or a missing field
parseSessionData(data) ==
    LET parsed == JSON_parse(data) IN
    IF parsed.ok /\ parsed.isObject /\ "value" \in DOMAIN parsed.fields /\ "expiry" \in DOMAIN parsed.fields
    THEN [some |-> TRUE, value |-> parsed.fields["value"], expiry |-> parsed.fields["expiry"]]
    ELSE NoSession

\* an expiry check that takes the clock in seconds
isSessionExpired_seconds(sessionData, t) == sessionData.expiry.isNum /\ (t \div 1000) > sessionData.expiry.n

\* Date.now() > sessionData.expiry; a comparison with an expiry that is no number is false
isSessionExpired(sessionData, t) == sessionData.expiry.isNum /\ t > sessionData.expiry.n

\* one StorageManager call of a session operation
SMCall(op, key, value, options, r) ==
    [op |-> op, key |-> key, value |-> value, options |-> options, ok |-> r.ok, val |-> r.val]

\* result of a session operation
SessionResult(st, val, thrown, calls, warn, n) ==
    [st |-> st, val |-> val, thrown |-> thrown, calls |-> calls, warned |-> warn, uuids |-> n]

\* a setSessionId that throws where the code warns
setSessionId_throws(r, sessionData, options, n) ==
    SessionResult(r.st, Null, r.thrown \/ ~r.ok, <<SMCall("set", STORAGE_KEY, sessionData, options, r)>>,
                  FALSE, n)

\* setSessionId from the result r of storageManager.set: if (!success) console.warn(...)
setSessionId_success(r, sessionData, options, n) ==
    SessionResult(r.st, Null, r.thrown, <<SMCall("set", STORAGE_KEY, sessionData, options, r)>>,
                  ~r.thrown /\ ~r.ok, n)

\* a setSessionId that adds the 30 minutes in seconds
setSessionId_seconds(stores, st, e, t, n, sessionId) ==
    LET sessionData == JSON_stringify_SessionItem(sessionId, t + 30 * 60)
        options == ExpiryOption(1800)
    IN setSessionId_success(StorageManager_set(stores, st, e, t, STORAGE_KEY, sessionData, options),
                            sessionData, options, n)

\* setSessionId(sessionId)
setSessionId(stores, st, e, t, n, sessionId) ==
    LET sessionData == JSON_stringify_SessionItem(sessionId, t + 30 * 60 * 1000)
        options == ExpiryOption(1800)
    IN setSessionId_success(StorageManager_set(stores, st, e, t, STORAGE_KEY, sessionData, options),
                            sessionData, options, n)

\* getSessionId from the result w of this.setSessionId(newSessionId): return newSessionId
getSessionId_new(w, got, newSessionId, n) ==
    SessionResult(w.st, Some(newSessionId), w.thrown, <<got>> \o w.calls, w.warned, n)

\* a getSessionId that writes the record again when it reads a valid one
getSessionId_sliding_stored(r, got, sessionData, stores, e, t, n) ==
    IF sessionData.some /\ ~isSessionExpired(sessionData, t)
    THEN getSessionId_new(setSessionId(stores, r.st, e, t, n, sessionData.value.s), got, sessionData.value.s, n)
    ELSE getSessionId_new(setSessionId(stores, r.st, e, t, n + 1, _uuidv4(n + 1)), got, _uuidv4(n + 1), n + 1)

getSessionId_sliding_parsed(r, stores, e, t, n) ==
    getSessionId_sliding_stored(r, SMCall("get", STORAGE_KEY, <<>>, NoOptions, r),
                                IF Truthy(r.val) THEN parseSessionData(r.val.s) ELSE NoSession, stores, e, t, n)

getSessionId_sliding(stores, st, e, t, n) ==
    getSessionId_sliding_parsed(StorageManager_get(stores, st, e, t, STORAGE_KEY), stores, e, t, n)

\* getSessionId from the result r of storageManager.get and the parse of the stored text
getSessionId_parsed(r, got, sessionData, stores, e, t, n) ==
    IF r.thrown THEN SessionResult(r.st, Null, TRUE, <<got>>, FALSE, n)
    ELSE IF sessionData.some /\ ~isSessionExpired(sessionData, t)
    THEN SessionResult(r.st,
                       Some(IF sessionData.value.isNum THEN <<Num(sessionData.value.n)>> ELSE sessionData.value.s),
                       FALSE, <<got>>, FALSE, n)
    ELSE getSessionId_new(setSessionId(stores, r.st, e, t, n + 1, _uuidv4(n + 1)), got, _uuidv4(n + 1), n + 1)

\* getSessionId from the result r of storageManager.get: if (stored) parseSessionData(stored)
getSessionId_stored(r, stores, e, t, n) ==
    getSessionId_parsed(r, SMCall("get", STORAGE_KEY, <<>>, NoOptions, r),
                        IF Truthy(r.val) THEN parseSessionData(r.val.s) ELSE NoSession, stores, e, t, n)

\* getSessionId()
getSessionId(stores, st, e, t, n) ==
    getSessionId_stored(StorageManager_get(stores, st, e, t, STORAGE_KEY), stores, e, t, n)

\* identifiers a caller hands to setSessionId: one of its own, or one generated before
CallerIds(n) == {<<Ch("c")>>} \cup {_uuidv4(i) : i \in 1..n}

\* contents other code may leave under the session key: no JSON, an object without expiry
ForeignValues == {<<Ch("v")>>, <<Ch("{"), Ch("value"), Ch(":"), Ch("Q"), Ch("c"), Ch("Q"), Ch("}")>>}

\* clock advances around the 30 minute session expiry
SessionTickSteps == {1, SessionMs}

\* sessionManager.getSessionId() in an environment e
GetSessionId_call(e) ==
    /\ constructed
    /\ \E r \in {getSessionId(availableStores, media, e, now, uuids)} :
       /\ r.uuids <= MaxUuids
       /\ media' = r.st
       /\ ret' = [thrown |-> r.thrown, ok |-> FALSE, val |-> r.val]
       /\ smCalls' = r.calls
       /\ warned' = r.warned
       /\ uuids' = r.uuids
    /\ call' = [NoArgs EXCEPT !.op = "getSessionId"]
    /\ tried' = <<>>
    /\ UNCHANGED <<constructed, availableStores, now, ticks>>
    /\ UNCHANGED pageVars

GetSessionId(e) == GetSessionId_call(e) /\ UNCHANGED established

\* sessionManager.setSessionId(sessionId) in an environment e
SetSessionId_call(sessionId, e) ==
    /\ constructed
    /\ \E r \in {setSessionId(availableStores, media, e, now, uuids, sessionId)} :
       /\ media' = r.st
       /\ ret' = [thrown |-> r.thrown, ok |-> FALSE, val |-> r.val]
       /\ smCalls' = r.calls
       /\ warned' = r.warned
    /\ call' = [NoArgs EXCEPT !.op = "setSessionId", !.value = sessionId]
    /\ tried' = <<>>
    /\ UNCHANGED <<constructed, availableStores, now, ticks, uuids>>
    /\ UNCHANGED pageVars

SetSessionId(sessionId, e) == SetSessionId_call(sessionId, e) /\ UNCHANGED established

\* configurations of the session runs: [localStorage, cookie, memory] and [cookie, sessionStorage]
SessionConfigs ==
    { ConfigOf("localStorage", TRUE, <<"cookie">>, "undefined"),
      ConfigOf("cookie", TRUE, <<"sessionStorage">>, "false") }

NextSession ==
    \/ \E config \in SessionConfigs : Construct(config, AllOk)
    \/ \E d \in SessionTickSteps : Tick(d)
    \/ \E e \in On(availableStores, Envs) : GetSessionId(e)
    \/ \E sessionId \in CallerIds(uuids), e \in On(availableStores, WriteEnvs) : SetSessionId(sessionId, e)
    \/ \E value \in ForeignValues : Set(STORAGE_KEY, value, NoOptions, AllOk)
    \/ Remove(STORAGE_KEY, AllOk)

SpecSession == Init /\ [][NextSession]_vars


-----------------------------------------------------------------------------
(* Properties of the Session Store *)

\* the session record a reader finds in environment e at time t: the parsed content of
\* the first store of the chain that holds a non-empty value under the session key
StoredSession(st, e, t) ==
    LET S == NonEmptyAt(availableStores, st, e, t, STORAGE_KEY) IN
    IF S = {} THEN NoSession
    ELSE parseSessionData(Held(availableStores[Min(S)], st, e, t, STORAGE_KEY).s)

\* the record's expiry is earlier than t
ExpiryPassed(rec, t) == rec.some /\ rec.expiry.isNum /\ rec.expiry.n < t

SessionRecord(id, expiry) == [some |-> TRUE, value |-> JsonStr(id), expiry |-> JsonNum(expiry)]

\* the positions of the chain whose store does not refuse a write in environment e
AcceptingAt(e) == {k \in 1..Len(availableStores) : ~Rejects(availableStores[k], e)}

\* after a write in environment e at time t: the first store of the chain that does not
\* refuse the write holds the record {id, expiry} (a cookie jar that ignores assignments
\* accepts the write and keeps nothing), and the write was one set call under the session
\* key with a 1800 second expiry option, the last of the operation's storage calls
Persisted(e, id, expiry, mediaAfter, calls) ==
    LET A == AcceptingAt(e)
        last == calls[Len(calls)]
    IN /\ Len(calls) >= 1
       /\ last.op = "set" /\ last.key = STORAGE_KEY /\ last.options = ExpiryOption(1800)
       /\ parseSessionData(last.value) = SessionRecord(id, expiry)
       /\ last.ok <=> A # {}
       /\ (A # {} /\ ~(availableStores[Min(A)] = "cookie" /\ e["cookie"] = "nowrite")) =>
             LET found == Held(availableStores[Min(A)], mediaAfter, AllOk, now, STORAGE_KEY)
             IN Truthy(found) /\ parseSessionData(found.s) = SessionRecord(id, expiry)

\* C8: when the stored session record is absent or its expiry is earlier than now,
\* getSessionId returns a newly generated identifier, different from the expired record's,
\* and persists it with expiry now + 30 minutes.
C8_SessionExpiry ==
    [][call'.op = "getSessionId" =>
          \A e \in On(availableStores, Envs) : GetSessionId(e) =>
             \A old \in {StoredSession(media, e, now)} :
             (~old.some \/ ExpiryPassed(old, now)) =>
                /\ ~ret'.thrown /\ Truthy(ret'.val)
                /\ uuids' = uuids + 1 /\ ret'.val.s = _uuidv4(uuids')
                /\ old.some => ret'.val.s # old.value.s
                /\ Len(smCalls') = 2
                /\ Persisted(e, ret'.val.s, now + 30 * 60 * 1000, media', smCalls')]_vars

\* getSessionId has just replaced an expired record: the first store holds the record of
\* the identifier it returned, generated after the clock has passed the session lifetime
C8_Witness ==
    /\ call.op = "getSessionId" /\ Len(smCalls) = 2 /\ Truthy(smCalls[1].val)
    /\ parseSessionData(smCalls[1].val.s).some
    /\ parseSessionData(smCalls[1].val.s).expiry.n < now
    /\ ret.val.s # parseSessionData(smCalls[1].val.s).value.s
    /\ smCalls[2].ok

\* C9: on a stored record that is valid and not expired, getSessionId returns the
\* record's value, makes no storage call other than the read, and leaves every store
\* as it was (a MemoryStore read along the way may only drop an expired entry).
C9_SessionNonSliding ==
    [][call'.op = "getSessionId" =>
          \A e \in On(availableStores, Envs) : GetSessionId(e) =>
             \A old \in {StoredSession(media, e, now)} :
             (old.some /\ ~ExpiryPassed(old, now)) =>
                /\ ~ret'.thrown /\ ret'.val = Some(old.value.s)
                /\ Len(smCalls') = 1 /\ smCalls'[1].op = "get"
                /\ uuids' = uuids /\ ~warned'
                /\ \A m \in Methods \ {"memory"} : media'[m] = media[m]
                /\ \A key \in DOMAIN media["memory"] :
                      now < media["memory"][key].expiry =>
                         (key \in DOMAIN media'["memory"] /\ media'["memory"][key] = media["memory"][key])
                /\ StoredSession(media', e, now) = old]_vars

\* a read of a record written earlier: the clock has advanced since the write and the
\* record still carries the expiry of its write
C9_Witness ==
    /\ call.op = "getSessionId" /\ Len(smCalls) = 1 /\ Truthy(ret.val)
    /\ ticks >= 1
    /\ StoredSession(media, AllOk, now).some
    /\ StoredSession(media, AllOk, now).expiry.n = ClockStart + 30 * 60 * 1000
    /\ now > ClockStart

\* C10: setSessionId(id) at time t makes one storage call, a set under the session key
\* of the record {value: id, expiry: t + 30 minutes} with a 1800 second expiry option,
\* whatever is stored; the first store that does not refuse the write then holds that record.
C10_SetSessionIdUnconditional ==
    [][\A sessionId \in CallerIds(MaxUuids + 1) :
          (call'.op = "setSessionId" /\ call'.value = sessionId) =>
             \A e \in On(availableStores, WriteEnvs) : SetSessionId(sessionId, e) =>
                /\ ~ret'.thrown
                /\ Len(smCalls') = 1
                /\ Persisted(e, sessionId, now + 30 * 60 * 1000, media', smCalls')
                /\ warned' <=> AcceptingAt(e) = {}]_vars

\* setSessionId has just written over a store that held other content: an identifier
\* generated earlier is on record nowhere in the first store, which holds the caller's
\* identifier with the expiry of this call, while a lower store keeps unparseable content
C10_Witness ==
    /\ call.op = "setSessionId" /\ call.value = <<Ch("c")>>
    /\ now > ClockStart
    /\ Len(availableStores) = 3
    /\ STORAGE_KEY \in DOMAIN media["localStorage"]
    /\ media["localStorage"][STORAGE_KEY] \in ForeignValues
    /\ CookieLive(media["cookie"], STORAGE_KEY, now)
    /\ parseSessionData(media["cookie"][STORAGE_KEY].value) = SessionRecord(<<Ch("c")>>, now + 30 * 60 * 1000)


\* C11: when every store of the chain refuses the write, setSessionId, and getSessionId
\* calling it, does not throw, a warning is logged, every store keeps its content, and
\* getSessionId still returns the identifier it generated.
C11_WriteFailureWarns ==
    [][/\ \A sessionId \in CallerIds(MaxUuids + 1) :
             (call'.op = "setSessionId" /\ call'.value = sessionId) =>
                \A e \in On(availableStores, WriteEnvs) :
                   (SetSessionId(sessionId, e) /\ AcceptingAt(e) = {}) =>
                      ~ret'.thrown /\ warned' /\ media' = media
       /\ call'.op = "getSessionId" =>
             \A e \in On(availableStores, Envs) :
                (GetSessionId(e) /\ AcceptingAt(e) = {} /\ Len(smCalls') = 2) =>
                   /\ ~ret'.thrown /\ warned' /\ media' = media
                   /\ uuids' = uuids + 1 /\ ret'.val = Some(_uuidv4(uuids'))]_vars

\* getSessionId has generated an identifier, its write was refused by both stores of the
\* chain, and it returned the identifier with a warning
C11_Witness ==
    /\ call.op = "getSessionId" /\ Len(smCalls) = 2
    /\ smCalls[2].op = "set" /\ ~smCalls[2].ok
    /\ warned /\ ~ret.thrown /\ ret.val = Some(_uuidv4(uuids))
    /\ Len(availableStores) = 2
    /\ \A m \in Range(availableStores) : STORAGE_KEY \notin DOMAIN media[m]


-----------------------------------------------------------------------------
(* The lifetime of a session: the session calls with their history recorded *)

\* every browser medium of the chain works in environment e
Works(e) == \A m \in Range(availableStores) \cap BrowserMedia : e[m] = "ok"

\* getSessionId(), recording the identifier it generated; intact says that no store of
\* the chain has failed since the identifier was established
EstablishingGetSessionId(e) ==
    /\ GetSessionId_call(e)
    /\ established' = IF uuids' # uuids
                      THEN [some |-> TRUE, id |-> _uuidv4(uuids'), at |-> now, intact |-> Works(e)]
                      ELSE [established EXCEPT !.intact = @ /\ Works(e)]

\* setSessionId(sessionId), recording the identifier
EstablishingSetSessionId(sessionId, e) ==
    /\ SetSessionId_call(sessionId, e)
    /\ established' = [some |-> TRUE, id |-> sessionId, at |-> now, intact |-> Works(e)]

\* clock advances around the end of the session's second-to-last second and its last millisecond
LifetimeTickSteps == {1, SessionMs - 1000, SessionMs - 1}

\* configurations of the lifetime runs: [cookie, sessionStorage] and [localStorage, cookie, memory]
NextLifetime ==
    \/ \E config \in SessionConfigs : Construct(config, AllOk)
    \/ \E d \in LifetimeTickSteps : Tick(d)
    \/ \E e \in On(availableStores, Envs) : EstablishingGetSessionId(e)
    \/ \E sessionId \in CallerIds(uuids), e \in On(availableStores, WriteEnvs) : EstablishingSetSessionId(sessionId, e)

SpecLifetime == Init /\ [][NextLifetime]_vars

-----------------------------------------------------------------------------
(* attribution-manager.ts *)

\* result of an attribution operation
AttributionResult(st, val, thrown, calls, warn) ==
    [st |-> st, val |-> val, thrown |-> thrown, calls |-> calls, warned |-> warn]

\* JSON.stringify(data): the members in insertion order, every value a string
RECURSIVE JsonMembers(_, _)
JsonMembers(data, i) ==
    IF i > Len(data) THEN <<>>
    ELSE (IF i > 1 THEN <<Ch(",")>> ELSE <<>>)
         \o <<Ch(data[i].name), Ch(":")>> \o JsonString(data[i].value) \o JsonMembers(data, i + 1)

JSON_stringify_AttributionData(data) == <<Ch("{")>> \o JsonMembers(data, 1) \o <<Ch("}")>>

\* a value JSON.parse returned, kept as its text, in a condition: null and 0 are falsy
JsonTruthy(val) == ~val.isNull /\ val.s # <<Num(0)>>

\* getAttributionData after the catch: storageManager.remove(ATTRIBUTION_STORAGE_KEY); return null
getAttributionData_catch(rm, got) ==
    AttributionResult(rm.st, Null, rm.thrown,
                      <<got, SMCall("remove", ATTRIBUTION_STORAGE_KEY, <<>>, NoOptions, rm)>>, FALSE)

\* a getAttributionData that leaves unparseable content in place
getAttributionData_keep(r, got, parsed, stores, e, t) ==
    AttributionResult(r.st, IF parsed.ok /\ r.val.s # <<Ch("null")>> THEN r.val ELSE Null, FALSE, <<got>>, FALSE)

\* getAttributionData from the stored text: try { return JSON.parse(stored) } catch { remove }
getAttributionData_parse(r, got, parsed, stores, e, t) ==
    IF parsed.ok
    THEN AttributionResult(r.st, IF r.val.s = <<Ch("null")>> THEN Null ELSE r.val, FALSE, <<got>>, FALSE)
    ELSE getAttributionData_catch(StorageManager_remove(stores, r.st, e, t, ATTRIBUTION_STORAGE_KEY), got)

\* getAttributionData from the result r of storageManager.get: if (stored) ...; return null
getAttributionData_stored(r, got, stores, e, t) ==
    IF r.thrown THEN AttributionResult(r.st, Null, TRUE, <<got>>, FALSE)
    ELSE IF Truthy(r.val) THEN getAttributionData_parse(r, got, JSON_parse(r.val.s), stores, e, t)
    ELSE AttributionResult(r.st, Null, FALSE, <<got>>, FALSE)

getAttributionData_got(r, stores, e, t) ==
    getAttributionData_stored(r, SMCall("get", ATTRIBUTION_STORAGE_KEY, <<>>, NoOptions, r), stores, e, t)

\* getAttributionData(): the returned value is the stored text that parsed, or null
getAttributionData(stores, st, e, t) ==
    getAttributionData_got(StorageManager_get(stores, st, e, t, ATTRIBUTION_STORAGE_KEY), stores, e, t)

\* setAttributionToStorage from the result r of storageManager.set: if (!success) console.warn(...)
setAttributionToStorage_success(r, text, options) ==
    AttributionResult(r.st, Null, r.thrown, <<SMCall("set", ATTRIBUTION_STORAGE_KEY, text, options, r)>>,
                      ~r.thrown /\ ~r.ok)

\* a setAttributionToStorage that passes no expiry option
setAttributionToStorage_noexpiry(stores, st, e, t, data) ==
    setAttributionToStorage_success(
        StorageManager_set(stores, st, e, t, ATTRIBUTION_STORAGE_KEY,
                           JSON_stringify_AttributionData(data), NoOptions),
        JSON_stringify_AttributionData(data), NoOptions)

\* setAttributionToStorage(data)
setAttributionToStorage(stores, st, e, t, data) ==
    setAttributionToStorage_success(
        StorageManager_set(stores, st, e, t, ATTRIBUTION_STORAGE_KEY,
                           JSON_stringify_AttributionData(data), ExpiryOption(24 * 60 * 60)),
        JSON_stringify_AttributionData(data), ExpiryOption(24 * 60 * 60))

\* new URLSearchParams(search).get(name): the value of the first pair of that name, or null
URLSearchParams_get(search, name) ==
    IF \E i \in 1..Len(search) : search[i].name = name
    THEN Some(search[Min({i \in 1..Len(search) : search[i].name = name})].value)
    ELSE Null

utmParams == <<"utm_source", "utm_medium", "utm_campaign", "utm_term", "utm_content">>

\* utmParams.forEach from the i-th name on: if (value) attributionData[param] = value
RECURSIVE utmParams_forEach(_, _)
utmParams_forEach(search, i) ==
    IF i > Len(utmParams) THEN <<>>
    ELSE (IF Truthy(URLSearchParams_get(search, utmParams[i]))
          THEN <<Param(utmParams[i], URLSearchParams_get(search, utmParams[i]).s)>> ELSE <<>>)
         \o utmParams_forEach(search, i + 1)

\* captureAttributionData after this.setAttributionToStorage(attributionData) returned w
captureAttributionData_set(g, w) ==
    AttributionResult(w.st, Null, w.thrown, g.calls \o w.calls, w.warned)

\* a capture that stores landing_page and referrer whether or not a UTM value was found
captureAttributionData_always(g, attributionData, stores, e, t, location) ==
    captureAttributionData_set(g, setAttributionToStorage(stores, g.st, e, t,
         attributionData \o <<Param("landing_page", location.pathname), Param("referrer", location.referrer)>>))

\* captureAttributionData from the UTM values found: if (Object.keys(attributionData).length > 0) ...
captureAttributionData_keys(g, attributionData, stores, e, t, location) ==
    IF Len(attributionData) > 0
    THEN captureAttributionData_set(g, setAttributionToStorage(stores, g.st, e, t,
             attributionData \o <<Param("landing_page", location.pathname), Param("referrer", location.referrer)>>))
    ELSE [g EXCEPT !.val = Null]

\* a capture that does not look at what is stored
captureAttributionData_overwrite(g, stores, e, t, location) ==
    IF g.thrown THEN [g EXCEPT !.val = Null]
    ELSE captureAttributionData_keys(g, utmParams_forEach(location.search, 1), stores, e, t, location)

\* a capture whose guard lets a record captured more than 24 hours ago be replaced
captureAttributionData_aged(g, stores, e, t, location) ==
    IF g.thrown \/ (JsonTruthy(g.val) /\ ~(established.some /\ t > established.at + DayMs))
    THEN [g EXCEPT !.val = Null]
    ELSE captureAttributionData_keys(g, utmParams_forEach(location.search, 1), stores, e, t, location)

\* captureAttributionData from the result g of this.getAttributionData(): if (stored) return
captureAttributionData_guard(g, stores, e, t, location) ==
    IF g.thrown \/ JsonTruthy(g.val) THEN [g EXCEPT !.val = Null]
    ELSE captureAttributionData_keys(g, utmParams_forEach(location.search, 1), stores, e, t, location)

\* captureAttributionData()
captureAttributionData(stores, st, e, t, location) ==
    captureAttributionData_guard(getAttributionData(stores, st, e, t), stores, e, t, location)

\* the attribution members of getCommonProperties(attributionManager): every member of the
\* record with a truthy value, referrer under the name original_referrer
attributionProperties(val) ==
    IF ~JsonTruthy(val) \/ ~JSON_parse(val.s).isObject THEN EmptyMap
    ELSE [k \in {IF f = "referrer" THEN "original_referrer" ELSE f :
                    f \in {f \in DOMAIN JSON_parse(val.s).fields \cap
                                 (Range(utmParams) \cup {"landing_page", "referrer"}) :
                             \/ JSON_parse(val.s).fields[f].isNum /\ JSON_parse(val.s).fields[f].n # 0
                             \/ ~JSON_parse(val.s).fields[f].isNum /\ JSON_parse(val.s).fields[f].s # <<>>}}
          |-> JSON_parse(val.s).fields[IF k = "original_referrer" THEN "referrer" ELSE k]]

\* pages the capture runs on: no query string; a UTM name without a value and another
\* parameter; two pages with different UTM values (one with a repeated name and an empty
\* utm_term); a UTM value holding a ';'
Locations ==
    { Location(<<>>, <<Ch("/")>>, <<Ch("r")>>),
      Location(<<Param("utm_source", <<>>), Param("page", <<Ch("2")>>)>>, <<Ch("/")>>, <<Ch("r")>>),
      Location(<<Param("utm_source", <<Ch("a")>>), Param("utm_term", <<>>), Param("utm_source", <<Ch("z")>>),
                 Param("utm_medium", <<Ch("m")>>)>>, <<Ch("/p")>>, <<>>),
      Location(<<Param("utm_source", <<Ch("b")>>)>>, <<Ch("/")>>, <<Ch("r")>>),
      Location(<<Param("utm_campaign", <<Ch("a"), Ch(";"), Ch("b")>>)>>, <<Ch("/")>>, <<>>) }

\* contents other code may leave under the attribution key: no JSON, a cut-off object
ForeignAttribution == {<<Ch("v")>>, <<Ch("{"), Ch("utm_source"), Ch(":"), Ch("Q"), Ch("x")>>}

\* environments of the attribution runs: every medium works; Web Storage is over quota;
\* also the cookie jar refuses; no browser medium can be read or written
AttributionEnvs ==
    { AllOk,
      [m \in BrowserMedia |-> IF m \in WebMethods THEN "nowrite" ELSE "ok"],
      [m \in BrowserMedia |-> IF m \in WebMethods THEN "nowrite" ELSE "denied"],
      [m \in BrowserMedia |-> "denied"] }

\* clock advances around the 24 hour expiry
AttributionTickSteps == {1, DayMs}

\* history of the attribution runs: the text and the time of the last capture that a store
\* accepted, forgotten when the entry is removed or overwritten
Captured(calls, t) ==
    IF calls[Len(calls)].op = "set" /\ calls[Len(calls)].ok
    THEN [some |-> TRUE, id |-> calls[Len(calls)].value, at |-> t, intact |-> TRUE]
    ELSE IF \E i \in 1..Len(calls) : calls[i].op = "remove" THEN NoEstablished
    ELSE established

\* attributionManager.getAttributionData() in an environment e; ret.fields are the
\* attribution members an event emitted with the returned value carries
GetAttributionData(e) ==
    /\ constructed
    /\ \E r \in {getAttributionData(availableStores, media, e, now)} :
       /\ media' = r.st
       /\ ret' = [thrown |-> r.thrown, ok |-> FALSE, val |-> r.val, fields |-> attributionProperties(r.val)]
       /\ smCalls' = r.calls
       /\ warned' = r.warned
    /\ call' = [NoArgs EXCEPT !.op = "getAttributionData"]
    /\ tried' = <<>>
    /\ established' = Captured(smCalls', now)
    /\ UNCHANGED <<constructed, availableStores, now, ticks, uuids>>
    /\ UNCHANGED pageVars

\* attributionManager.captureAttributionData() on a page, in an environment e
CaptureAttributionData(location, e) ==
    /\ constructed
    /\ \E r \in {captureAttributionData(availableStores, media, e, now, location)} :
       /\ media' = r.st
       /\ ret' = [thrown |-> r.thrown, ok |-> FALSE, val |-> r.val]
       /\ smCalls' = r.calls
       /\ warned' = r.warned
    /\ call' = [NoArgs EXCEPT !.op = "captureAttributionData", !.location = location]
    /\ tried' = <<>>
    /\ established' = Captured(smCalls', now)
    /\ UNCHANGED <<constructed, availableStores, now, ticks, uuids>>
    /\ UNCHANGED pageVars

\* other code overwrites the entry under the attribution key
OverwriteAttribution(value) ==
    Set_call(ATTRIBUTION_STORAGE_KEY, value, NoOptions, AllOk) /\ established' = NoEstablished

\* the entry under the attribution key is removed explicitly
RemoveAttribution ==
    Remove_call(ATTRIBUTION_STORAGE_KEY, AllOk) /\ established' = NoEstablished

NextAttribution ==
    \/ \E config \in SessionConfigs : Construct(config, AllOk)
    \/ \E d \in AttributionTickSteps : Tick(d)
    \/ \E e \in AttributionEnvs : GetAttributionData(e)
    \/ \E location \in Locations, e \in AttributionEnvs : CaptureAttributionData(location, e)
    \/ \E value \in ForeignAttribution : OverwriteAttribution(value)
    \/ RemoveAttribution

SpecAttribution == Init /\ [][NextAttribution]_vars


-----------------------------------------------------------------------------
(* Properties of the Attribution Store *)

\* what Storage get returns for the attribution key in environment e at time t
StoredAttribution(st, e, t) ==
    IF NonEmptyAt(availableStores, st, e, t, ATTRIBUTION_STORAGE_KEY) = {} THEN Null
    ELSE Held(availableStores[Min(NonEmptyAt(availableStores, st, e, t, ATTRIBUTION_STORAGE_KEY))],
              st, e, t, ATTRIBUTION_STORAGE_KEY)

\* an attribution record exists: the stored text parses to a value other than null
RecordExists(stored) == Truthy(stored) /\ JSON_parse(stored.s).ok /\ JsonTruthy(stored)

\* the UTM names that have a non-empty value in the query string
UtmPresent(location) ==
    {u \in Range(utmParams) :
        \E i \in 1..Len(location.search) :
           /\ location.search[i].name = u /\ location.search[i].value # <<>>
           /\ \A j \in 1..(i - 1) : location.search[j].name # u}

FirstValue(location, u) ==
    location.search[Min({i \in 1..Len(location.search) : location.search[i].name = u})].value

\* the record a capture on the page is to store
ExpectedRecord(location) ==
    [k \in UtmPresent(location) \cup {"landing_page", "referrer"} |->
        IF k = "landing_page" THEN JsonStr(location.pathname)
        ELSE IF k = "referrer" THEN JsonStr(location.referrer)
        ELSE JsonStr(FirstValue(location, k))]

\* C13: once an attribution record exists in storage, a captureAttributionData call is a
\* no-op whatever UTM parameters the page carries: it makes no storage call but the read,
\* and every store and the stored record are as before.
C13_FirstTouch ==
    [][\A location \in Locations :
          (call'.op = "captureAttributionData" /\ call'.location = location) =>
             \A e \in AttributionEnvs : \A old \in {StoredAttribution(media, e, now)} :
                   (RecordExists(old) /\ CaptureAttributionData(location, e)) =>
                      /\ Len(smCalls') = 1 /\ smCalls'[1].op = "get"
                      /\ media' = media /\ ~ret'.thrown /\ ~warned'
                      /\ StoredAttribution(media', e, now) = old]_vars

\* the second of two captures with different UTM parameters: the page carries
\* utm_source "b", the stored record still has utm_source "a" and the first landing page
C13_Witness ==
    /\ call.op = "captureAttributionData"
    /\ URLSearchParams_get(call.location.search, "utm_source") = Some(<<Ch("b")>>)
    /\ Len(smCalls) = 1
    /\ RecordExists(StoredAttribution(media, AllOk, now))
    /\ "utm_source" \in DOMAIN JSON_parse(StoredAttribution(media, AllOk, now).s).fields
    /\ JSON_parse(StoredAttribution(media, AllOk, now).s).fields["utm_source"] = JsonStr(<<Ch("a")>>)
    /\ JSON_parse(StoredAttribution(media, AllOk, now).s).fields["landing_page"] = JsonStr(<<Ch("/p")>>)

\* C14: captureAttributionData on a page whose query string has none of the five UTM
\* parameters makes no set call, and no store gains or changes an entry.
C14_NoCapture ==
    [][\A location \in Locations :
          (call'.op = "captureAttributionData" /\ call'.location = location
           /\ \A i \in 1..Len(location.search) : location.search[i].name \notin Range(utmParams)) =>
             /\ \A i \in 1..Len(smCalls') : smCalls'[i].op # "set"
             /\ ~ret'.thrown
             /\ \A m \in Methods : \A key \in DOMAIN media'[m] :
                   key \in DOMAIN media[m] /\ media'[m][key] = media[m][key]]_vars

\* a capture on a page without a query string and with a known referrer, after which no
\* store holds an entry under the attribution key
C14_Witness ==
    /\ call.op = "captureAttributionData"
    /\ call.location.search = <<>> /\ call.location.referrer # <<>>
    /\ Len(smCalls) = 1
    /\ \A m \in Methods : ATTRIBUTION_STORAGE_KEY \notin DOMAIN media[m]

\* C15: when no record is stored and the query string carries at least one UTM value,
\* captureAttributionData hands the storage manager a record with exactly the UTM
\* parameters present plus landing_page and referrer, and the store that accepts the write
\* then holds that record.
C15_CaptureStores ==
    [][\A location \in Locations :
          (call'.op = "captureAttributionData" /\ call'.location = location
           /\ UtmPresent(location) # {}) =>
             \A e \in AttributionEnvs : \A old \in {StoredAttribution(media, e, now)} :
                   (~RecordExists(old) /\ CaptureAttributionData(location, e)) =>
                      \A last \in {smCalls'[Len(smCalls')]} :
                         /\ last.op = "set"
                         /\ JSON_parse(last.value).ok
                         /\ JSON_parse(last.value).fields = ExpectedRecord(location)
                         /\ last.ok =>
                               \A new \in {StoredAttribution(media', e, now)} :
                                  /\ RecordExists(new)
                                  /\ JSON_parse(new.s).fields = ExpectedRecord(location)]_vars

\* the texts of a page that a cookie assignment would cut: those with a semicolon
CutByCookie(location) ==
    \E text \in {location.pathname, location.referrer} \cup {location.search[i].value : i \in 1..Len(location.search)} :
       \E j \in 1..Len(text) : text[j].c = ";"

\* C15 on the pages none of whose texts has a semicolon
C15_CaptureStores_Plain ==
    [][\A location \in Locations :
          (call'.op = "captureAttributionData" /\ call'.location = location
           /\ UtmPresent(location) # {} /\ ~CutByCookie(location)) =>
             \A e \in AttributionEnvs : \A old \in {StoredAttribution(media, e, now)} :
                   (~RecordExists(old) /\ CaptureAttributionData(location, e)) =>
                      \A last \in {smCalls'[Len(smCalls')]} :
                         /\ last.op = "set"
                         /\ JSON_parse(last.value).ok
                         /\ JSON_parse(last.value).fields = ExpectedRecord(location)
                         /\ last.ok =>
                               \A new \in {StoredAttribution(media', e, now)} :
                                  /\ RecordExists(new)
                                  /\ JSON_parse(new.s).fields = ExpectedRecord(location)]_vars

\* C16: a captured record lasts 24 hours: a getAttributionData call made later than
\* 24 hours after the last capture returns null and events carry no attribution member,
\* whichever store accepted the write.
C16_AttributionExpiry ==
    [][(/\ call'.op = "getAttributionData"
        /\ established.some
        /\ now > established.at + 24 * 60 * 60 * 1000) =>
          ret'.val = Null /\ DOMAIN ret'.fields = {}]_vars

\* C16 for the records the cookie store or the memory store accepted
C16_AttributionExpiry_Dated ==
    [][(/\ call'.op = "getAttributionData"
        /\ established.some
        /\ now > established.at + 24 * 60 * 60 * 1000
        /\ \A m \in WebMethods : ATTRIBUTION_STORAGE_KEY \notin DOMAIN media[m]) =>
          ret'.val = Null /\ DOMAIN ret'.fields = {}]_vars

\* the store whose content Storage get returns for the attribution key
AttributionHolder(st, e, t) ==
    availableStores[Min(NonEmptyAt(availableStores, st, e, t, ATTRIBUTION_STORAGE_KEY))]

\* C17 as stated: a record captured more than 24 hours ago and not removed since blocks
\* the capture, whichever store holds it: the call makes no set call.
C17_AsStated ==
    [][(/\ call'.op = "captureAttributionData"
        /\ established.some
        /\ now > established.at + 24 * 60 * 60 * 1000) =>
          \A i \in 1..Len(smCalls') : smCalls'[i].op # "set"]_vars

\* C17: the capture guard checks presence only: a record captured more than 24 hours ago
\* that localStorage or sessionStorage holds blocks every capture until it is removed:
\* the call makes the read and nothing else, and every store is as before.
C17_GuardIgnoresAge ==
    [][(/\ call'.op = "captureAttributionData"
        /\ established.some
        /\ now > established.at + 24 * 60 * 60 * 1000) =>
          \A e \in AttributionEnvs : \A old \in {StoredAttribution(media, e, now)} :
             (/\ RecordExists(old)
              /\ AttributionHolder(media, e, now) \in WebMethods
              /\ CaptureAttributionData(call'.location, e)) =>
                 /\ Len(smCalls') = 1 /\ smCalls'[1].op = "get"
                 /\ media' = media
                 /\ StoredAttribution(media', e, now) = old]_vars

\* a capture on a page with UTM values made more than 24 hours after the last capture,
\* which left the old record in Web Storage and wrote nothing
C17_Witness ==
    /\ call.op = "captureAttributionData"
    /\ UtmPresent(call.location) # {}
    /\ established.some /\ now > established.at + 24 * 60 * 60 * 1000
    /\ Len(smCalls) = 1
    /\ RecordExists(StoredAttribution(media, AllOk, now))
    /\ AttributionHolder(media, AllOk, now) \in WebMethods
    /\ StoredAttribution(media, AllOk, now).s = established.id

-----------------------------------------------------------------------------
(* Click Tracker: click-tracker.ts.  The texts of this part (attribute keys,
   attribute values, host names) are sequences of one-character strings. *)

MaxInitialize == 3

storageVars == <<constructed, availableStores, media, now, ticks, uuids, tried, smCalls, established>>

UpperToLower == [A |-> "a", B |-> "b", C |-> "c", D |-> "d", E |-> "e", F |-> "f", G |-> "g", H |-> "h", I |-> "i", J |-> "j", K |-> "k", L |-> "l", M |-> "m", N |-> "n", O |-> "o", P |-> "p", Q |-> "q", R |-> "r", S |-> "s", T |-> "t", U |-> "u", V |-> "v", W |-> "w", X |-> "x", Y |-> "y", Z |-> "z"]

\* String.prototype.toLowerCase
toLowerCase(text) ==
    [i \in 1..Len(text) |-> IF text[i] \in DOMAIN UpperToLower THEN UpperToLower[text[i]] ELSE text[i]]

\* String.prototype.startsWith
startsWith(text, prefix) == Len(text) >= Len(prefix) /\ SubSeq(text, 1, Len(prefix)) = prefix

\* String.prototype.includes
includes(text, part) == \E i \in 0..(Len(text) - Len(part)) : SubSeq(text, i + 1, i + Len(part)) = part

\* text.replace(prefix, '') on a text taken when it starts with the prefix
replace(text, prefix) ==
    IF startsWith(text, prefix) THEN SubSeq(text, Len(prefix) + 1, Len(text)) ELSE text

Max(S) == CHOOSE x \in S : \A y \in S : x >= y

track == <<"t", "r", "a", "c", "k">>
prop == <<"p", "r", "o", "p">>
event == <<"e", "v", "e", "n", "t">>
linktype == <<"l", "i", "n", "k", "t", "y", "p", "e">>
link_click == <<"l", "i", "n", "k", "_", "c", "l", "i", "c", "k">>
element_id == <<"e", "l", "e", "m", "e", "n", "t", "_", "i", "d">>
link_url == <<"l", "i", "n", "k", "_", "u", "r", "l">>
link_text == <<"l", "i", "n", "k", "_", "t", "e", "x", "t">>
link_host == <<"l", "i", "n", "k", "_", "h", "o", "s", "t">>
link_path == <<"l", "i", "n", "k", "_", "p", "a", "t", "h">>
link_type == <<"l", "i", "n", "k", "_", "t", "y", "p", "e">>
is_external == <<"i", "s", "_", "e", "x", "t", "e", "r", "n", "a", "l">>
link_params == <<"l", "i", "n", "k", "_", "p", "a", "r", "a", "m", "s">>
link_hash == <<"l", "i", "n", "k", "_", "h", "a", "s", "h">>
email_address == <<"e", "m", "a", "i", "l", "_", "a", "d", "d", "r", "e", "s", "s">>
email_subject == <<"e", "m", "a", "i", "l", "_", "s", "u", "b", "j", "e", "c", "t">>
email_body == <<"e", "m", "a", "i", "l", "_", "b", "o", "d", "y">>
platform == <<"p", "l", "a", "t", "f", "o", "r", "m">>

socialPlatforms == <<<<"l", "i", "n", "k", "e", "d", "i", "n", ".", "c", "o", "m">>, <<"t", "w", "i", "t", "t", "e", "r", ".", "c", "o", "m">>, <<"g", "i", "t", "h", "u", "b", ".", "c", "o", "m">>, <<"x", ".", "c", "o", "m">>, <<"i", "n", "s", "t", "a", "g", "r", "a", "m", ".", "c", "o", "m">>, <<"f", "a", "c", "e", "b", "o", "o", "k", ".", "c", "o", "m">>>>
mediaPlatforms == <<<<"s", "u", "b", "s", "t", "a", "c", "k", ".", "c", "o", "m">>, <<"m", "e", "d", "i", "u", "m", ".", "c", "o", "m">>, <<"p", "o", "d", "c", "a", "s", "t", "s", ".", "a", "p", "p", "l", "e", ".", "c", "o", "m">>, <<"m", "u", "s", "i", "c", ".", "a", "m", "a", "z", "o", "n", ".", "c", "o", "m">>, <<"s", "p", "o", "t", "i", "f", "y", ".", "c", "o", "m">>, <<"y", "o", "u", "t", "u", "b", "e", ".", "c", "o", "m">>>>

\* JavaScript values of event properties
JsString(text) == [t |-> "string", s |-> text]
JsNull == [t |-> "null", s |-> <<>>]
JsBoolean(b) == [t |-> "boolean", s |-> IF b THEN <<"t", "r", "u", "e">> ELSE <<"f", "a", "l", "s", "e">>]

\* a parsed URL: searchParams are the names and values of the query as the URL object
\* gives them (percent-decoded once), hash is the fragment with its '#'
URL(protocol, hostname, pathname, searchParams, hash) ==
    [protocol |-> protocol, hostname |-> hostname, pathname |-> pathname,
     searchParams |-> searchParams, hash |-> hash]
Url(protocol, hostname, pathname) == URL(protocol, hostname, pathname, <<>>, <<>>)

\* link.href is the empty string when the anchor has no destination
NoHref == Url(<<>>, <<>>, <<>>)

\* the characters application/x-www-form-urlencoded leaves as they are
Unreserved ==
    DOMAIN UpperToLower \cup {UpperToLower[c] : c \in DOMAIN UpperToLower}
       \cup {"0", "1", "2", "3", "4", "5", "6", "7", "8", "9", "*", "-", ".", "_"}

\* percent escapes of the other characters of the model's texts
Escapes ==
    ("%" :> <<"2", "5">>) @@
    ("&" :> <<"2", "6">>) @@
    ("=" :> <<"3", "D">>) @@
    ("+" :> <<"2", "B">>) @@
    ("@" :> <<"4", "0">>) @@
    ("/" :> <<"2", "F">>) @@
    (":" :> <<"3", "A">>) @@
    ("?" :> <<"3", "F">>) @@
    ("#" :> <<"2", "3">>) @@
    (" " :> <<"2", "0">>)

HexDigits == {"0", "1", "2", "3", "4", "5", "6", "7", "8", "9",
              "A", "B", "C", "D", "E", "F", "a", "b", "c", "d", "e", "f"}

\* the form-urlencoded text of a name or value from character i on
RECURSIVE urlencode(_, _)
urlencode(text, i) ==
    IF i > Len(text) THEN <<>>
    ELSE (IF text[i] \in Unreserved THEN <<text[i]>>
          ELSE IF text[i] = " " THEN <<"+">>
          ELSE <<"%">> \o Escapes[text[i]]) \o urlencode(text, i + 1)

\* URLSearchParams.prototype.toString from entry i on
RECURSIVE URLSearchParams_toString(_, _)
URLSearchParams_toString(params, i) ==
    IF i > Len(params) THEN <<>>
    ELSE (IF i > 1 THEN <<"&">> ELSE <<>>)
            \o urlencode(params[i].name, 1) \o <<"=">> \o urlencode(params[i].value, 1)
            \o URLSearchParams_toString(params, i + 1)

\* the entries from i on whose name is not the given one
RECURSIVE URLSearchParams_delete(_, _, _)
URLSearchParams_delete(params, name, i) ==
    IF i > Len(params) THEN <<>>
    ELSE (IF params[i].name = name THEN <<>> ELSE <<params[i]>>) \o URLSearchParams_delete(params, name, i + 1)

\* URLSearchParams.prototype.set: the first entry of the name takes the value, the other
\* entries of the name go, a new name is appended
URLSearchParams_set(params, name, value) ==
    IF \A i \in 1..Len(params) : params[i].name # name
    THEN Append(params, [name |-> name, value |-> value])
    ELSE SubSeq(params, 1, Min({i \in 1..Len(params) : params[i].name = name}) - 1)
            \o <<[name |-> name, value |-> value]>>
            \o URLSearchParams_delete(params, name, Min({i \in 1..Len(params) : params[i].name = name}) + 1)

\* decodeURIComponent from character i on: a '%' that two hexadecimal digits do not
\* follow, or whose byte is not of the ASCII range, throws URIError
RECURSIVE decodeURIComponent(_, _)
decodeURIComponent(text, i) ==
    IF i > Len(text) THEN [thrown |-> FALSE, s |-> <<>>]
    ELSE IF text[i] # "%"
    THEN [decodeURIComponent(text, i + 1) EXCEPT !.s = <<text[i]>> \o @]
    ELSE IF i + 2 > Len(text) \/ text[i + 1] \notin HexDigits \/ text[i + 2] \notin HexDigits
              \/ text[i + 1] \notin {"0", "1", "2", "3", "4", "5", "6", "7"}
    THEN [thrown |-> TRUE, s |-> <<>>]
    ELSE [decodeURIComponent(text, i + 3) EXCEPT
             !.s = <<CHOOSE c \in DOMAIN Escapes :
                       toLowerCase(Escapes[c]) = toLowerCase(SubSeq(text, i + 1, i + 2))>> \o @]

\* URL serialisation: link.href as a text
href(url) ==
    IF url = NoHref THEN <<>>
    ELSE url.protocol \o (IF url.hostname = <<>> THEN <<>> ELSE <<"/", "/">> \o url.hostname)
            \o url.pathname
            \o (IF url.searchParams = <<>> THEN <<>>
                ELSE <<"?">> \o URLSearchParams_toString(url.searchParams, 1))
            \o url.hash

\* window.location.hostname
LocationHostname == <<"e", "x", "a", "m", "p", "l", "e", ".", "c", "o", "m">>

\* an entry of el.dataset and an element: tag name, id, destination, trimmed text, dataset
\* in attribute order
Data(key, value) == [key |-> key, value |-> value]
Element(tag, id, url, text, dataset) ==
    [tag |-> tag, id |-> id, url |-> url, textContent |-> text, dataset |-> dataset]

\* inferLinkType(url)
inferLinkType(url) ==
    IF url.protocol = <<"m", "a", "i", "l", "t", "o", ":">> THEN <<"e", "m", "a", "i", "l">>
    ELSE IF \E i \in 1..Len(socialPlatforms) : includes(url.hostname, socialPlatforms[i]) THEN <<"s", "o", "c", "i", "a", "l">>
    ELSE IF \E i \in 1..Len(mediaPlatforms) : includes(url.hostname, mediaPlatforms[i]) THEN <<"m", "e", "d", "i", "a">>
    ELSE <<"w", "e", "b">>

\* currentElement.dataset['track'] !== undefined
Marked(el) == \E j \in 1..Len(el.dataset) : el.dataset[j].key = track

\* the highest element of the path (root first, clicked element last) with data-track; 0 if none
topTrackElement(path) ==
    IF \A i \in 1..Len(path) : ~Marked(path[i]) THEN 0
    ELSE Min({i \in 1..Len(path) : Marked(path[i])})

\* key.replace(/^track/, '').toLowerCase()
cleanKey(key) == toLowerCase(replace(key, track))

\* an assignment that keeps the value an ancestor gave
collectTrackingData_assign_first(trackingData, key, value) ==
    IF cleanKey(key) \in DOMAIN trackingData THEN trackingData ELSE Put(trackingData, cleanKey(key), value)

\* trackingData[cleanKey] = el.dataset[key]
collectTrackingData_assign(trackingData, key, value) == Put(trackingData, cleanKey(key), value)

\* Object.keys(el.dataset).forEach from entry j on
RECURSIVE collectTrackingData_keys(_, _, _)
collectTrackingData_keys(trackingData, dataset, j) ==
    IF j > Len(dataset) THEN trackingData
    ELSE collectTrackingData_keys(
            IF startsWith(dataset[j].key, track)
            THEN collectTrackingData_assign(trackingData, dataset[j].key, dataset[j].value)
            ELSE trackingData,
            dataset, j + 1)

\* elementsToCheck.forEach from element i on
RECURSIVE collectTrackingData_elements(_, _, _)
collectTrackingData_elements(trackingData, path, i) ==
    IF i > Len(path) THEN trackingData
    ELSE collectTrackingData_elements(collectTrackingData_keys(trackingData, path[i].dataset, 1), path, i + 1)

\* a collection that starts at the root of the document
collectTrackingData_root(path) ==
    IF topTrackElement(path) = 0 THEN EmptyMap
    ELSE collectTrackingData_elements(EmptyMap, path, 1)

\* collectTrackingData(element), the element given with its ancestors
collectTrackingData(path) ==
    IF topTrackElement(path) = 0 THEN EmptyMap
    ELSE collectTrackingData_elements(EmptyMap, path, topTrackElement(path))

\* an anchor looked for from the topmost marked element up
closest_a_top(path) ==
    IF \A i \in 1..topTrackElement(path) : path[i].tag # "a" THEN 0
    ELSE Max({i \in 1..topTrackElement(path) : path[i].tag = "a"})

\* target.closest('a'): the nearest anchor among the target and its ancestors; 0 if none
closest_a(path) ==
    IF \A i \in 1..Len(path) : path[i].tag # "a" THEN 0
    ELSE Max({i \in 1..Len(path) : path[i].tag = "a"})

\* Object.assign(target, source)
Object_assign(target, source) ==
    [k \in DOMAIN target \cup DOMAIN source |-> IF k \in DOMAIN source THEN source[k] ELSE target[k]]

\* text.replace(part, '') with a text or a regular expression without anchors: the first
\* occurrence goes
replace_first(text, part) ==
    IF ~includes(text, part) THEN text
    ELSE SubSeq(text, 1, Min({i \in 0..(Len(text) - Len(part)) : SubSeq(text, i + 1, i + Len(part)) = part}))
            \o SubSeq(text, Min({i \in 0..(Len(text) - Len(part)) : SubSeq(text, i + 1, i + Len(part)) = part}) + Len(part) + 1, Len(text))

\* text.replace(/suffix$/, '')
replace_end(text, suffix) ==
    IF Len(text) >= Len(suffix) /\ SubSeq(text, Len(text) - Len(suffix) + 1, Len(text)) = suffix
    THEN SubSeq(text, 1, Len(text) - Len(suffix)) ELSE text

\* getPlatformFromHostname(hostname)
getPlatformFromHostname(hostname) ==
    IF includes(hostname, <<"p", "o", "d", "c", "a", "s", "t", "s", ".", "a", "p", "p", "l", "e">>) THEN <<"a", "p", "p", "l", "e", "-", "p", "o", "d", "c", "a", "s", "t", "s">>
    ELSE IF includes(hostname, <<"s", "p", "o", "t", "i", "f", "y">>) THEN <<"s", "p", "o", "t", "i", "f", "y">>
    ELSE IF includes(hostname, <<"s", "u", "b", "s", "t", "a", "c", "k">>) THEN <<"s", "u", "b", "s", "t", "a", "c", "k">>
    ELSE IF includes(hostname, <<"m", "u", "s", "i", "c", ".", "a", "m", "a", "z", "o", "n">>) THEN <<"a", "m", "a", "z", "o", "n", "-", "m", "u", "s", "i", "c">>
    ELSE replace_end(replace_first(hostname, <<"w", "w", "w", ".">>), <<".", "c", "o", "m">>)

\* url.searchParams.forEach((value, key) => mappedSearchParams.set(key,
\* decodeURIComponent(value))) from entry i on; thrown when a decodeURIComponent throws
RECURSIVE linkClickPropertyGenerator_forEach(_, _, _)
linkClickPropertyGenerator_forEach(searchParams, mappedSearchParams, i) ==
    IF i > Len(searchParams) THEN [thrown |-> FALSE, params |-> mappedSearchParams]
    ELSE IF decodeURIComponent(searchParams[i].value, 1).thrown THEN [thrown |-> TRUE, params |-> <<>>]
    ELSE linkClickPropertyGenerator_forEach(
            searchParams,
            URLSearchParams_set(mappedSearchParams, searchParams[i].name,
                                decodeURIComponent(searchParams[i].value, 1).s),
            i + 1)

\* the object linkClickPropertyGenerator returns, given the mapped search parameters
linkClickPropertyGenerator_return(link, linkType, mapped) ==
    [thrown |-> mapped.thrown,
     properties |->
        IF mapped.thrown THEN EmptyMap
        ELSE [k \in {link_url, link_text, link_host, link_path, link_params, link_hash, link_type, is_external} |->
                IF k = link_url THEN JsString(href(link.url))
                ELSE IF k = link_text THEN JsString(link.textContent)
                ELSE IF k = link_host THEN JsString(link.url.hostname)
                ELSE IF k = link_path THEN JsString(link.url.pathname)
                ELSE IF k = link_params THEN JsString(URLSearchParams_toString(mapped.params, 1))
                ELSE IF k = link_hash THEN JsString(SubSeq(link.url.hash, 2, Len(link.url.hash)))
                ELSE IF k = link_type THEN JsString(linkType)
                ELSE JsBoolean(link.url.hostname # LocationHostname)]]

\* linkClickPropertyGenerator(link, linkType): thrown, or the properties
linkClickPropertyGenerator(link, linkType) ==
    linkClickPropertyGenerator_return(link, linkType,
                                      linkClickPropertyGenerator_forEach(link.url.searchParams, <<>>, 1))

\* url.searchParams.get(name) || null
searchParams_get(searchParams, name) ==
    IF \A i \in 1..Len(searchParams) : searchParams[i].name # name THEN JsNull
    ELSE IF searchParams[Min({i \in 1..Len(searchParams) : searchParams[i].name = name})].value = <<>> THEN JsNull
    ELSE JsString(searchParams[Min({i \in 1..Len(searchParams) : searchParams[i].name = name})].value)

\* { ...base, more }: the members of the spread, then the generator's own
spread(base, more) ==
    [thrown |-> base.thrown,
     properties |-> IF base.thrown THEN EmptyMap ELSE Object_assign(base.properties, more)]

\* the generator registered for 'email'
emailGenerator(link) ==
    spread(linkClickPropertyGenerator(link, <<"e", "m", "a", "i", "l">>),
           [k \in {email_address, email_subject, email_body} |->
               IF k = email_address THEN JsString(link.url.pathname)
               ELSE IF k = email_subject THEN searchParams_get(link.url.searchParams, <<"s", "u", "b", "j", "e", "c", "t">>)
               ELSE searchParams_get(link.url.searchParams, <<"b", "o", "d", "y">>)])

\* the generators registered for 'social' and 'media'
platformGenerator(link, linkType) ==
    spread(linkClickPropertyGenerator(link, linkType),
           [k \in {platform} |-> JsString(getPlatformFromHostname(link.url.hostname))])

\* eventPropertyFactory.createGenerator(linkType) applied to the link
createGenerator(linkType, link) ==
    IF linkType = <<"w", "e", "b">> THEN linkClickPropertyGenerator(link, <<"w", "e", "b">>)
    ELSE IF linkType = <<"e", "m", "a", "i", "l">> THEN emailGenerator(link)
    ELSE IF linkType \in {<<"s", "o", "c", "i", "a", "l">>, <<"m", "e", "d", "i", "a">>} THEN platformGenerator(link, linkType)
    ELSE linkClickPropertyGenerator(link, linkType)

\* the custom data attributes: keys starting with 'prop', named by the rest in lower case
customProperties(trackingData) ==
    [n \in {toLowerCase(replace(k, prop)) : k \in {k \in DOMAIN trackingData : startsWith(k, prop)}} |->
        JsString(trackingData[CHOOSE k \in DOMAIN trackingData :
                                  startsWith(k, prop) /\ toLowerCase(replace(k, prop)) = n])]

\* what a handleClick run did: the track calls, a console.warn, an exception
Handled(calls, warn, thrown) == [tracked |-> calls, warning |-> warn, thrown |-> thrown]

\* the texts of the two warnings
NoValidLink == Some(<<Ch("link_click event triggered but no valid link found")>>)
NotImplemented(eventType) == Some(<<Ch("Event type '"), Ch(eventType), Ch("' is not yet implemented")>>)

\* properties with the custom data attributes under the generated members
handleClick_properties_generated_last(generated, trackingData, path) ==
    Object_assign(
        Object_assign([k \in {element_id} |->
                          IF path[Len(path)].id = <<>> THEN JsNull ELSE JsString(path[Len(path)].id)],
                      customProperties(trackingData)),
        generated)

\* properties: element_id, then the generated members, then the custom data attributes
handleClick_properties(generated, trackingData, path) ==
    Object_assign(
        Object_assign([k \in {element_id} |->
                          IF path[Len(path)].id = <<>> THEN JsNull ELSE JsString(path[Len(path)].id)],
                      generated),
        customProperties(trackingData))

\* handleClick once the generator has run: an exception of the generator leaves the
\* handler, else window.analytics.track when window.analytics is there
\* a handler bound to the first instance instead of reading window.analytics
handleClick_generated_first(g, trackingData, eventType, path, a) ==
    IF g.thrown THEN Handled(<<>>, Null, TRUE)
    ELSE IF a = 0 THEN Handled(<<>>, Null, FALSE)
    ELSE Handled(<<[to |-> 1, eventType |-> eventType,
                    properties |-> handleClick_properties(g.properties, trackingData, path)]>>,
                 Null, FALSE)

handleClick_generated(g, trackingData, eventType, path, a) ==
    IF g.thrown THEN Handled(<<>>, Null, TRUE)
    ELSE IF a = 0 THEN Handled(<<>>, Null, FALSE)
    ELSE Handled(<<[to |-> a, eventType |-> eventType,
                    properties |-> handleClick_properties(g.properties, trackingData, path)]>>,
                 Null, FALSE)

\* handleClick once the link is found: the generator, the properties, the track call
handleClick_track(trackingData, eventType, link, linkType, path, a) ==
    handleClick_generated(createGenerator(linkType, link), trackingData, eventType, path, a)

\* a handler that gives up without a warning when no link is found
handleClick_link_silent(trackingData, eventType, link, path, a) ==
    IF link = 0 \/ href(path[IF link = 0 THEN 1 ELSE link].url) = <<>> THEN Handled(<<>>, Null, FALSE)
    ELSE handleClick_track(trackingData, eventType, path[link],
                           IF linktype \in DOMAIN trackingData /\ trackingData[linktype] # <<>>
                           THEN trackingData[linktype] ELSE inferLinkType(path[link].url),
                           path, a)

\* handleClick for a link_click: the anchor, then the link type
handleClick_link(trackingData, eventType, link, path, a) ==
    IF link = 0 \/ href(path[IF link = 0 THEN 1 ELSE link].url) = <<>> THEN Handled(<<>>, NoValidLink, FALSE)
    ELSE handleClick_track(trackingData, eventType, path[link],
                           IF linktype \in DOMAIN trackingData /\ trackingData[linktype] # <<>>
                           THEN trackingData[linktype] ELSE inferLinkType(path[link].url),
                           path, a)

\* a handler that treats every event type as a link click
handleClick_event_any(trackingData, eventType, path, a) ==
    handleClick_link(trackingData, eventType, closest_a(path), path, a)

\* handleClick from the event type on
handleClick_event(trackingData, eventType, path, a) ==
    IF eventType = link_click THEN handleClick_link(trackingData, eventType, closest_a(path), path, a)
    ELSE Handled(<<>>, NotImplemented(eventType), FALSE)

\* a handler that does not look for the marker
handleClick_data_unmarked(trackingData, path, a) ==
    handleClick_event(trackingData,
                      IF event \in DOMAIN trackingData /\ trackingData[event] # <<>>
                      THEN trackingData[event] ELSE link_click,
                      path, a)

\* handleClick from the collected data on
handleClick_data(trackingData, path, a) ==
    IF <<>> \notin DOMAIN trackingData THEN Handled(<<>>, Null, FALSE)
    ELSE handleClick_event(trackingData,
                           IF event \in DOMAIN trackingData /\ trackingData[event] # <<>>
                           THEN trackingData[event] ELSE link_click,
                           path, a)

\* handleClick(event), the target given with its ancestors, with window.analytics = a
handleClick(path, a) == handleClick_data(collectTrackingData(path), path, a)

\* the tracker's closure variable with the document's listeners and the count of
\* addEventListener calls
Tracker(flag, attached, calls) == [initialized |-> flag, listeners |-> attached, added |-> calls]

\* an initialize that attaches the listener at every call
initialize_again(flag, attached, calls) == Tracker(TRUE, attached \cup {"handleClick"}, calls + 1)

\* initialize(): addEventListener adds a listener that is not attached yet
initialize(flag, attached, calls) ==
    IF ~flag THEN Tracker(TRUE, attached \cup {"handleClick"}, calls + 1)
    ELSE Tracker(flag, attached, calls)

\* isInitialized()
isInitialized(flag) == flag

\* pages: the clicked element last, its ancestors before it
ExampleUrl == Url(<<"h", "t", "t", "p", "s", ":">>, <<"e", "x", "a", "m", "p", "l", "e", ".", "c", "o", "m">>, <<"/", "x">>)
GithubUrl == Url(<<"h", "t", "t", "p", "s", ":">>, <<"g", "i", "t", "h", "u", "b", ".", "c", "o", "m">>, <<"/", "u">>)
DropboxUrl == Url(<<"h", "t", "t", "p", "s", ":">>, <<"d", "r", "o", "p", "b", "o", "x", ".", "c", "o", "m">>, <<"/", "f">>)
MailtoUrl == URL(<<"m", "a", "i", "l", "t", "o", ":">>, <<>>, <<"a", "@", "b", ".", "c", "o", "m">>, <<[name |-> <<"s", "u", "b", "j", "e", "c", "t">>, value |-> <<"h", "i">>]>>, <<>>)
YoutubeUrl == URL(<<"h", "t", "t", "p", "s", ":">>, <<"w", "w", "w", ".", "y", "o", "u", "t", "u", "b", "e", ".", "c", "o", "m">>, <<"/", "w", "a", "t", "c", "h">>, <<[name |-> <<"v">>, value |-> <<"1">>]>>, <<"#", "t">>)
\* /x?d=100%25: the query value is the text 100%
PercentUrl == URL(<<"h", "t", "t", "p", "s", ":">>, <<"e", "x", "a", "m", "p", "l", "e", ".", "c", "o", "m">>, <<"/", "x">>, <<[name |-> <<"d">>, value |-> <<"1", "0", "0", "%">>]>>, <<>>)
\* /x?q=a%2520b: the query value is the text a%20b
EncodedUrl == URL(<<"h", "t", "t", "p", "s", ":">>, <<"e", "x", "a", "m", "p", "l", "e", ".", "c", "o", "m">>, <<"/", "x">>, <<[name |-> <<"q">>, value |-> <<"a", "%", "2", "0", "b">>]>>, <<>>)
NoData == <<>>

ClickPaths ==
    { \* a marked ancestor with category nav, a descendant anchor with category cta
      <<Element("div", <<>>, NoHref, <<>>, <<Data(track, <<>>), Data(<<"t", "r", "a", "c", "k", "P", "r", "o", "p", "C", "a", "t", "e", "g", "o", "r", "y">>, <<"n", "a", "v">>)>>),
        Element("a", <<"l">>, ExampleUrl, <<"g", "o">>, <<Data(<<"t", "r", "a", "c", "k", "P", "r", "o", "p", "C", "a", "t", "e", "g", "o", "r", "y">>, <<"c", "t", "a">>)>>)>>,
      \* three levels, the clicked span overrides the container's variant
      <<Element("div", <<>>, NoHref, <<>>,
                <<Data(track, <<>>), Data(<<"t", "r", "a", "c", "k", "P", "r", "o", "p", "S", "e", "c", "t", "i", "o", "n">>, <<"n", "a", "v">>), Data(<<"t", "r", "a", "c", "k", "P", "r", "o", "p", "V", "a", "r", "i", "a", "n", "t">>, <<"s">>)>>),
        Element("a", <<>>, ExampleUrl, <<"g", "o">>, <<Data(<<"t", "r", "a", "c", "k", "P", "r", "o", "p", "C", "a", "t", "e", "g", "o", "r", "y">>, <<"c", "t", "a">>)>>),
        Element("span", <<>>, NoHref, <<"g", "o">>, <<Data(<<"t", "r", "a", "c", "k", "P", "r", "o", "p", "V", "a", "r", "i", "a", "n", "t">>, <<"p">>)>>)>>,
      \* event type: the anchor's link_click over the container's custom type, and the reverse
      <<Element("div", <<>>, NoHref, <<>>, <<Data(track, <<>>), Data(<<"t", "r", "a", "c", "k", "E", "v", "e", "n", "t">>, <<"c", "u", "s", "t", "o", "m">>)>>),
        Element("a", <<>>, ExampleUrl, <<"g", "o">>, <<Data(<<"t", "r", "a", "c", "k", "E", "v", "e", "n", "t">>, link_click)>>),
        Element("span", <<>>, NoHref, <<"g", "o">>, NoData)>>,
      <<Element("div", <<>>, NoHref, <<>>, <<Data(track, <<>>), Data(<<"t", "r", "a", "c", "k", "E", "v", "e", "n", "t">>, link_click)>>),
        Element("a", <<>>, ExampleUrl, <<"g", "o">>, <<Data(<<"t", "r", "a", "c", "k", "E", "v", "e", "n", "t">>, <<"c", "u", "s", "t", "o", "m">>)>>)>>,
      <<Element("div", <<>>, NoHref, <<>>, <<Data(track, <<>>), Data(<<"t", "r", "a", "c", "k", "E", "v", "e", "n", "t">>, <<"c", "u", "s", "t", "o", "m">>)>>),
        Element("a", <<>>, ExampleUrl, <<"g", "o">>, <<Data(<<"t", "r", "a", "c", "k", "E", "v", "e", "n", "t">>, <<>>)>>)>>,
      \* link type: the anchor's download over the container's external
      <<Element("div", <<>>, NoHref, <<>>, <<Data(track, <<>>), Data(<<"t", "r", "a", "c", "k", "L", "i", "n", "k", "T", "y", "p", "e">>, <<"e", "x", "t">>)>>),
        Element("a", <<>>, ExampleUrl, <<"g", "o">>, <<Data(<<"t", "r", "a", "c", "k", "L", "i", "n", "k", "T", "y", "p", "e">>, <<"d", "l">>)>>)>>,
      \* no marker anywhere
      <<Element("div", <<>>, NoHref, <<>>, NoData),
        Element("a", <<>>, ExampleUrl, <<"g", "o">>, <<Data(<<"t", "r", "a", "c", "k", "P", "r", "o", "p", "C", "a", "t", "e", "g", "o", "r", "y">>, <<"c", "t", "a">>)>>)>>,
      \* a marked container and a button: no anchor
      <<Element("div", <<>>, NoHref, <<>>, <<Data(track, <<>>)>>),
        Element("button", <<"b">>, NoHref, <<"g", "o">>, NoData)>>,
      \* an anchor without destination
      <<Element("div", <<>>, NoHref, <<>>, <<Data(track, <<>>)>>),
        Element("a", <<>>, NoHref, <<"g", "o">>, NoData)>>,
      \* the anchor above the topmost marked element; an attribute without the prefix
      <<Element("a", <<>>, GithubUrl, <<"m", "e">>, <<Data(<<"t", "r", "a", "c", "k", "P", "r", "o", "p", "C", "a", "t", "e", "g", "o", "r", "y">>, <<"n", "a", "v">>)>>),
        Element("div", <<>>, NoHref, <<"m", "e">>, <<Data(track, <<"x">>), Data(<<"o", "t", "h", "e", "r">>, <<"o">>)>>),
        Element("span", <<"s">>, NoHref, <<"m", "e">>, <<Data(track, <<>>), Data(<<"t", "r", "a", "c", "k", "P", "r", "o", "p", "C", "a", "t", "e", "g", "o", "r", "y">>, <<"c", "t", "a">>)>>)>>,
      \* destinations: a host that has x.com inside its name, a mailto, a media host with
      \* query and fragment, a query value with a percent sign, a query value to decode
      <<Element("a", <<>>, DropboxUrl, <<"g", "o">>, <<Data(track, <<>>)>>)>>,
      <<Element("a", <<>>, MailtoUrl, <<"g", "o">>, <<Data(track, <<>>)>>)>>,
      <<Element("div", <<>>, NoHref, <<>>, <<Data(track, <<>>)>>),
        Element("a", <<>>, YoutubeUrl, <<"g", "o">>, NoData)>>,
      <<Element("a", <<>>, PercentUrl, <<"g", "o">>, <<Data(track, <<>>)>>)>>,
      <<Element("a", <<>>, EncodedUrl, <<"g", "o">>, <<Data(track, <<>>)>>)>>,
      \* custom properties with the names of generated members
      <<Element("a", <<"l">>, GithubUrl, <<"g", "o">>,
                <<Data(track, <<>>), Data(<<"t", "r", "a", "c", "k", "P", "r", "o", "p", "L", "i", "n", "k", "_", "t", "y", "p", "e">>, <<"p", "r", "o", "m", "o">>),
                  Data(<<"t", "r", "a", "c", "k", "P", "r", "o", "p", "E", "l", "e", "m", "e", "n", "t", "_", "i", "d">>, <<"h", "e", "r", "o">>), Data(<<"t", "r", "a", "c", "k", "P", "r", "o", "p", "L", "i", "n", "k", "_", "u", "r", "l">>, <<"u">>)>>)>>,
      \* link type: an empty value, and email on a destination that is no mailto
      <<Element("a", <<>>, GithubUrl, <<"g", "o">>, <<Data(track, <<>>), Data(<<"t", "r", "a", "c", "k", "L", "i", "n", "k", "T", "y", "p", "e">>, <<>>)>>)>>,
      <<Element("a", <<>>, ExampleUrl, <<"g", "o">>, <<Data(track, <<>>), Data(<<"t", "r", "a", "c", "k", "L", "i", "n", "k", "T", "y", "p", "e">>, <<"e", "m", "a", "i", "l">>)>>)>> }

\* a document: its elements, and for each the index of its parent (0 for the root)
Dom(elements, parent) == [elements |-> elements, parent |-> parent]

\* a path as a document of one branch
Chain(path) == Dom(path, [i \in 1..Len(path) |-> i - 1])

\* documents where anchors are beside or below other elements
ClickTrees ==
    { \* a marked container with a label and an anchor as its children
      Dom(<<Element("div", <<>>, NoHref, <<>>, <<Data(track, <<>>)>>),
            Element("span", <<>>, NoHref, <<"g", "o">>, NoData),
            Element("a", <<>>, ExampleUrl, <<"g", "o">>, NoData)>>,
          <<0, 1, 1>>),
      \* an anchor around a marked container whose label has an anchor inside
      Dom(<<Element("a", <<>>, GithubUrl, <<"m", "e">>, NoData),
            Element("div", <<>>, NoHref, <<"m", "e">>, <<Data(track, <<>>)>>),
            Element("span", <<>>, NoHref, <<"m", "e">>, NoData),
            Element("a", <<>>, ExampleUrl, <<"m", "e">>, <<Data(track, <<>>)>>)>>,
          <<0, 1, 2, 3>>),
      \* custom properties above the topmost marked element, on the path and beside it
      Dom(<<Element("div", <<>>, NoHref, <<>>, <<Data(<<"t", "r", "a", "c", "k", "P", "r", "o", "p", "O", "u", "t", "e", "r">>, <<"o">>), Data(<<"i", "d">>, <<"o">>)>>),
            Element("div", <<>>, NoHref, <<>>, <<Data(track, <<>>), Data(<<"t", "r", "a", "c", "k", "P", "r", "o", "p", "S", "e", "c", "t", "i", "o", "n">>, <<"s">>)>>),
            Element("a", <<>>, ExampleUrl, <<"g", "o">>, <<Data(<<"t", "r", "a", "c", "k", "P", "r", "o", "p", "I", "n", "n", "e", "r">>, <<"i">>), Data(<<"r", "o", "l", "e">>, <<"r">>)>>),
            Element("span", <<>>, NoHref, <<"n", "o">>, <<Data(track, <<>>), Data(<<"t", "r", "a", "c", "k", "P", "r", "o", "p", "S", "i", "d", "e">>, <<"x">>)>>)>>,
          <<0, 1, 2, 2>>) }

\* a click: the document and the index of the clicked element
ClickPages ==
    {[dom |-> Chain(path), target |-> Len(path)] : path \in ClickPaths}
       \cup UNION {{[dom |-> dom, target |-> t] : t \in 1..Len(dom.elements)} : dom \in ClickTrees}

\* the element with its ancestors, root first: what parentElement and closest walk
RECURSIVE composedPath(_, _)
composedPath(dom, t) ==
    IF t = 0 THEN <<>> ELSE Append(composedPath(dom, dom.parent[t]), dom.elements[t])

\* window.analytics: absent, or one of two instances
Instances == {0, 1, 2}

\* clickTracker.initialize()
Initialize ==
    /\ initializeCalls < MaxInitialize
    /\ \E r \in {initialize(initialized, listeners, added)} :
          /\ initialized' = r.initialized
          /\ listeners' = r.listeners
          /\ added' = r.added
    /\ initializeCalls' = initializeCalls + 1
    /\ call' = [NoArgs EXCEPT !.op = "initialize"]
    /\ ret' = NoRet
    /\ warned' = FALSE
    /\ tracked' = <<>>
    /\ collected' = EmptyMap
    /\ UNCHANGED analytics
    /\ UNCHANGED <<initVars, stepVars, sendVars>>
    /\ UNCHANGED storageVars

\* clickTracker.isInitialized()
IsInitialized ==
    /\ call' = [NoArgs EXCEPT !.op = "isInitialized"]
    /\ ret' = [NoRet EXCEPT !.ok = isInitialized(initialized)]
    /\ warned' = FALSE
    /\ tracked' = <<>>
    /\ collected' = EmptyMap
    /\ UNCHANGED <<initialized, listeners, added, initializeCalls, analytics>>
    /\ UNCHANGED <<initVars, stepVars, sendVars>>
    /\ UNCHANGED storageVars

\* a click on an element of a document: the document runs its click listeners
Click(page) ==
    /\ \E path \in {composedPath(page.dom, page.target)} :
          /\ \E r \in {IF "handleClick" \in listeners THEN handleClick(path, analytics)
                       ELSE Handled(<<>>, Null, FALSE)} :
                /\ tracked' = r.tracked
                /\ warned' = ~r.warning.isNull
                /\ ret' = [NoRet EXCEPT !.thrown = r.thrown, !.val = r.warning]
          /\ collected' = IF "handleClick" \in listeners THEN collectTrackingData(path) ELSE EmptyMap
          /\ call' = [NoArgs EXCEPT !.op = "click", !.path = path, !.dom = page.dom,
                                    !.target = page.target]
    /\ UNCHANGED <<initialized, listeners, added, initializeCalls, analytics>>
    /\ UNCHANGED <<initVars, stepVars, sendVars>>
    /\ UNCHANGED storageVars

\* the page sets or clears window.analytics
SetAnalytics(a) ==
    /\ analytics' = a
    /\ call' = [NoArgs EXCEPT !.op = "analytics"]
    /\ ret' = NoRet
    /\ warned' = FALSE
    /\ tracked' = <<>>
    /\ collected' = EmptyMap
    /\ UNCHANGED <<initialized, listeners, added, initializeCalls>>
    /\ UNCHANGED <<initVars, stepVars, sendVars>>
    /\ UNCHANGED storageVars

NextClick ==
    \/ Initialize
    \/ IsInitialized
    \/ \E page \in ClickPages : Click(page)
    \/ \E a \in Instances : SetAnalytics(a)

SpecClick == Init /\ [][NextClick]_vars

-----------------------------------------------------------------------------
(* initTinybirdAnalytics and the plugin.  The Analytics library is not part of the
   repository: the instance it makes is an identifier, and it runs the plugin's
   initialize at a time of its own after the instance is made. *)

MaxInstances == 2

\* the message of the error initTinybirdAnalytics throws for a field
Requires(field) == Some(<<Ch("Tinybird Analytics requires a "), Ch(field)>>)

\* a validation that takes an empty text as a value
initTinybirdAnalytics_validate_given(config) ==
    IF config.token.isNull THEN Requires("token")
    ELSE IF config.host.isNull THEN Requires("host")
    ELSE IF config.domain.isNull THEN Requires("domain")
    ELSE Null

\* if (!config.token) throw ...; if (!config.host) throw ...; if (!config.domain) throw ...:
\* the error, Null without one
initTinybirdAnalytics_validate(config) ==
    IF ~Truthy(config.token) THEN Requires("token")
    ELSE IF ~Truthy(config.host) THEN Requires("host")
    ELSE IF ~Truthy(config.domain) THEN Requires("domain")
    ELSE Null

\* finalConfig: the defaults under the given fields
finalConfig(config) == [config EXCEPT !.storage = IF config.storage = "" THEN "localStorage" ELSE config.storage]

\* a slot that keeps the instance it has
initTinybirdAnalytics_window_first(slot, instance) == IF slot = 0 THEN instance ELSE slot

\* window.analytics = analytics
initTinybirdAnalytics_window(slot, instance) == instance

\* what an initTinybirdAnalytics call leaves: its exception or the instance it returns,
\* window.analytics, the click tracker, the instances made, the plugins to initialize
Initialized(thrown, val, slot, tracker, n, queue) ==
    [thrown |-> thrown, val |-> val, analytics |-> slot, tracker |-> tracker, created |-> n,
     pending |-> queue]

\* initTinybirdAnalytics after the validation: Analytics({...}) makes instance n + 1
initTinybirdAnalytics_valid(error, config, slot, tracker, n, queue) ==
    IF ~error.isNull THEN Initialized(TRUE, error, slot, tracker, n, queue)
    ELSE Initialized(FALSE, Some(<<Num(n + 1)>>),
                     initTinybirdAnalytics_window(slot, n + 1),
                     IF finalConfig(config).enableClickTracking
                     THEN initialize(tracker.initialized, tracker.listeners, tracker.added)
                     ELSE tracker,
                     n + 1,
                     Append(queue, [id |-> n + 1, config |-> finalConfig(config)]))

\* initTinybirdAnalytics(config)
initTinybirdAnalytics(config, slot, tracker, n, queue) ==
    initTinybirdAnalytics_valid(initTinybirdAnalytics_validate(config), config, slot, tracker, n, queue)

\* configWithDefaults of tinybirdAnalytics(config), the fields createStorageManager reads
configWithDefaults(config) == ConfigOf(config.storage, FALSE, <<>>, "undefined")

\* tinybirdAnalytics(config) on a page at location: the storage manager's chain and the
\* run of attributionManager.captureAttributionData(); a configuration that passed
\* initTinybirdAnalytics has a token, so the factory's own validation does not throw
tinybirdAnalytics(config, st, e, t, location) ==
    [stores |-> createStorageManager(configWithDefaults(config), st, e),
     capture |-> captureAttributionData(createStorageManager(configWithDefaults(config), st, e),
                                        st, e, t, location)]

\* configurations: each of token, host and domain missing, empty or given
Fields == {Null, Some(<<>>), Some(<<Ch("v")>>)}
InitConfigs ==
    {PluginConfig(token, host, domain, enableClickTracking, storage) :
        token \in Fields, host \in Fields, domain \in Fields,
        enableClickTracking \in BOOLEAN, storage \in {"", "cookie"}}

\* initTinybirdAnalytics(config)
InitTinybirdAnalytics(config) ==
    /\ created < MaxInstances
    /\ \E r \in {initTinybirdAnalytics(config, analytics, Tracker(initialized, listeners, added),
                                       created, pending)} :
          /\ ret' = [NoRet EXCEPT !.thrown = r.thrown, !.val = r.val]
          /\ analytics' = r.analytics
          /\ initialized' = r.tracker.initialized
          /\ listeners' = r.tracker.listeners
          /\ added' = r.tracker.added
          /\ initializeCalls' = IF ~r.thrown /\ finalConfig(config).enableClickTracking
                                THEN initializeCalls + 1 ELSE initializeCalls
          /\ created' = r.created
          /\ pending' = r.pending
    /\ call' = [NoArgs EXCEPT !.op = "initTinybirdAnalytics", !.config = config]
    /\ warned' = FALSE
    /\ tracked' = <<>>
    /\ collected' = EmptyMap
    /\ UNCHANGED <<tinybird, setting, sent>>
    /\ UNCHANGED storageVars

\* the library runs the plugin's initialize for the oldest instance that waits, on a page
\* at location in an environment e: a no-op when window.tinybirdAnalytics is there
\* a plugin whose initialize never finds the page instance
plugin_initialize_always(instance) == FALSE

\* typeof window.tinybirdAnalytics !== 'undefined'
plugin_initialize_loaded(instance) == instance.id # 0

PluginInitialize(location, e) ==
    /\ pending # <<>>
    /\ pending' = Tail(pending)
    /\ IF plugin_initialize_loaded(tinybird)
       THEN /\ UNCHANGED <<tinybird, constructed, availableStores, media, established>>
            /\ smCalls' = <<>>
            /\ warned' = FALSE
       ELSE \E r \in {tinybirdAnalytics(Head(pending).config, media, e, now, location)} :
               /\ tinybird' = Head(pending)
               /\ constructed' = TRUE
               /\ availableStores' = r.stores
               /\ media' = r.capture.st
               /\ smCalls' = r.capture.calls
               /\ warned' = r.capture.warned
               /\ established' = Captured(smCalls', now)
    /\ call' = [NoArgs EXCEPT !.op = "plugin.initialize", !.location = location,
                              !.config = Head(pending).config]
    /\ ret' = NoRet
    /\ tried' = <<>>
    /\ tracked' = <<>>
    /\ collected' = EmptyMap
    /\ UNCHANGED <<now, ticks, uuids>>
    /\ UNCHANGED <<initialized, listeners, added, initializeCalls, analytics, created, setting, sent>>

\* the pages the plugin is initialized on
InitLocations ==
    { Location(<<>>, <<Ch("/")>>, <<Ch("r")>>),
      Location(<<Param("utm_source", <<Ch("b")>>)>>, <<Ch("/")>>, <<Ch("r")>>) }

NextInit ==
    \/ \E config \in InitConfigs : InitTinybirdAnalytics(config)
    \/ \E location \in InitLocations : PluginInitialize(location, AllOk)
    \/ \E page \in ClickPages : Click(page)

SpecInit == Init /\ [][NextInit]_vars

-----------------------------------------------------------------------------
(* Properties of the Click Tracker *)

\* C19: the tracker goes one way from uninitialized to initialized: before the first
\* initialize() the flag is false and no listener is attached; after any number of
\* initialize() calls the flag is true, isInitialized() returns it, and addEventListener
\* has been called exactly once, with one listener attached.
C19_InitializeOnce ==
    /\ [](IF initializeCalls = 0
          THEN ~initialized /\ added = 0 /\ listeners = {}
          ELSE initialized /\ added = 1 /\ listeners = {"handleClick"})
    /\ [][/\ call'.op = "isInitialized" => ret'.ok = (initializeCalls > 0)
          /\ initialized => initialized']_vars

\* isInitialized() answered true after a third initialize(), one listener attached
C19_Witness ==
    /\ initializeCalls >= 3
    /\ call.op = "isInitialized" /\ ret.ok
    /\ added = 1 /\ listeners = {"handleClick"}

\* the path elements, from the topmost marked one down, that carry a tracking key
Carriers(path, key) ==
    {i \in topTrackElement(path)..Len(path) :
        \E j \in 1..Len(path[i].dataset) :
           startsWith(path[i].dataset[j].key, track) /\ cleanKey(path[i].dataset[j].key) = key}

\* the tracking keys the path carries
CarriedKeys(path) ==
    UNION {{cleanKey(path[i].dataset[j].key) :
               j \in {j \in 1..Len(path[i].dataset) : startsWith(path[i].dataset[j].key, track)}} :
           i \in {i \in 1..Len(path) : topTrackElement(path) # 0 /\ i >= topTrackElement(path)}}

\* the value the carrier closest to the clicked element gives the key
ClosestValue(path, key) ==
    path[Max(Carriers(path, key))].dataset[
        Max({j \in 1..Len(path[Max(Carriers(path, key))].dataset) :
                /\ startsWith(path[Max(Carriers(path, key))].dataset[j].key, track)
                /\ cleanKey(path[Max(Carriers(path, key))].dataset[j].key) = key})].value

ResolvedEventType(path) ==
    IF event \in CarriedKeys(path) /\ ClosestValue(path, event) # <<>>
    THEN ClosestValue(path, event) ELSE link_click

\* the document runs the tracker's handler on the click the step makes
HandlerRuns == call'.op = "click" /\ "handleClick" \in listeners

\* C21: a click on an element with no tracking marker on itself or any ancestor makes no
\* track call, logs no warning and throws nothing.
C21_NoMarkerNoOp ==
    [][(HandlerRuns /\ \A i \in 1..Len(call'.path) : \A j \in 1..Len(call'.path[i].dataset) :
                          call'.path[i].dataset[j].key # track) =>
          tracked' = <<>> /\ ~warned' /\ ret'.val = Null /\ ~ret'.thrown]_vars

\* the handler ran with window.analytics set on a click on an anchor with a destination
\* and a custom property, no element of the path marked: nothing tracked, nothing warned
C21_Witness ==
    /\ call.op = "click" /\ "handleClick" \in listeners /\ analytics # 0
    /\ \A i \in 1..Len(call.path) : ~Marked(call.path[i])
    /\ call.path[Len(call.path)].tag = "a" /\ call.path[Len(call.path)].url # NoHref
    /\ call.path[Len(call.path)].dataset # <<>>
    /\ tracked = <<>> /\ ~warned

\* C22: on a marked path whose event type is link_click, when the clicked element has no
\* enclosing anchor, or the nearest one has an empty destination, the handler logs the
\* no-valid-link warning and makes no track call.
C22_MissingAnchorWarns ==
    [][(/\ HandlerRuns
        /\ \E i \in 1..Len(call'.path) : Marked(call'.path[i])
        /\ ResolvedEventType(call'.path) = link_click
        /\ \/ \A i \in 1..Len(call'.path) : call'.path[i].tag # "a"
           \/ \E i \in 1..Len(call'.path) :
                 /\ call'.path[i].tag = "a" /\ call'.path[i].url = NoHref
                 /\ \A k \in (i + 1)..Len(call'.path) : call'.path[k].tag # "a") =>
          tracked' = <<>> /\ warned' /\ ret'.val = NoValidLink /\ ~ret'.thrown]_vars

\* a click on a button under a marked container, with window.analytics set: warned,
\* nothing tracked
C22_Witness ==
    /\ call.op = "click" /\ "handleClick" \in listeners /\ analytics # 0
    /\ Marked(call.path[1])
    /\ call.path[Len(call.path)].tag = "button"
    /\ \A i \in 1..Len(call.path) : call.path[i].tag # "a"
    /\ tracked = <<>> /\ warned /\ ret.val = NoValidLink

\* C23 as stated: the event type is the event key of the collected data when the key is
\* present, link_click otherwise; for a type other than link_click the handler warns and
\* makes no track call.
C23_AsStated ==
    [][(/\ HandlerRuns
        /\ \E i \in 1..Len(call'.path) : Marked(call'.path[i])
        /\ event \in CarriedKeys(call'.path)
        /\ ClosestValue(call'.path, event) # link_click) =>
          tracked' = <<>> /\ warned' /\ ~ret'.thrown]_vars

\* C23: the event type of a tracked click is the event key of the collected data when it
\* is present and not empty, link_click otherwise; for every type other than link_click
\* the handler warns that the type is not implemented and makes no track call, without
\* throwing; an emitted event has the resolved type.
C23_EventType ==
    [][(HandlerRuns /\ \E i \in 1..Len(call'.path) : Marked(call'.path[i])) =>
          /\ ResolvedEventType(call'.path) # link_click =>
                /\ tracked' = <<>> /\ warned' /\ ~ret'.thrown
                /\ ret'.val = NotImplemented(ResolvedEventType(call'.path))
          /\ \A i \in 1..Len(tracked') : tracked'[i].eventType = ResolvedEventType(call'.path)]_vars

\* a click under a container that says link_click on an anchor that says custom, with
\* window.analytics set: warned as not implemented, nothing tracked
C23_Witness ==
    /\ call.op = "click" /\ "handleClick" \in listeners /\ analytics # 0
    /\ \E i \in 1..Len(call.path) : Marked(call.path[i])
    /\ ResolvedEventType(call.path) = <<"c", "u", "s", "t", "o", "m">>
    /\ call.path[Len(call.path)].tag = "a" /\ call.path[Len(call.path)].url # NoHref
    /\ tracked = <<>> /\ warned

\* a hostname is that of a platform: the platform's name or a subdomain of it
HostMatches(hostname, p) ==
    \/ hostname = p
    \/ /\ Len(hostname) > Len(p) + 1
       /\ SubSeq(hostname, Len(hostname) - Len(p), Len(hostname)) = <<".">> \o p

\* the classification of a destination with hostnames matched as the platforms' own
MatchedLinkType(url) ==
    IF url.protocol = <<"m", "a", "i", "l", "t", "o", ":">> THEN <<"e", "m", "a", "i", "l">>
    ELSE IF \E i \in 1..Len(socialPlatforms) : HostMatches(url.hostname, socialPlatforms[i]) THEN <<"s", "o", "c", "i", "a", "l">>
    ELSE IF \E i \in 1..Len(mediaPlatforms) : HostMatches(url.hostname, mediaPlatforms[i]) THEN <<"m", "e", "d", "i", "a">>
    ELSE <<"w", "e", "b">>

\* the classification of a destination with hostnames matched by containment of the
\* platform's name
ContainedLinkType(url) ==
    IF url.protocol = <<"m", "a", "i", "l", "t", "o", ":">> THEN <<"e", "m", "a", "i", "l">>
    ELSE IF \E i \in 1..Len(socialPlatforms) : includes(url.hostname, socialPlatforms[i]) THEN <<"s", "o", "c", "i", "a", "l">>
    ELSE IF \E i \in 1..Len(mediaPlatforms) : includes(url.hostname, mediaPlatforms[i]) THEN <<"m", "e", "d", "i", "a">>
    ELSE <<"w", "e", "b">>

\* the step emits a link click whose path has no custom property named link_type
EmitsClassified ==
    /\ call'.op = "click" /\ tracked' # <<>>
    /\ prop \o link_type \notin CarriedKeys(call'.path)

\* the path has a link-type override: a link-type value that is not empty
HasOverride(path) == linktype \in CarriedKeys(path) /\ ClosestValue(path, linktype) # <<>>

\* C24: the emitted link_type is the link-type override when the collected data have one;
\* otherwise it is inferred from the anchor's destination: mailto gives email, else a
\* hostname of the social list gives social, else a hostname of the media list gives media,
\* else web.
C24_LinkClassification ==
    [][EmitsClassified =>
          tracked'[1].properties[link_type] =
             JsString(IF HasOverride(call'.path) THEN ClosestValue(call'.path, linktype)
                      ELSE MatchedLinkType(call'.path[closest_a(call'.path)].url))]_vars

\* the same with a hostname matching a platform when it contains the platform's name
C24_LinkClassification_Contained ==
    [][EmitsClassified =>
          tracked'[1].properties[link_type] =
             JsString(IF HasOverride(call'.path) THEN ClosestValue(call'.path, linktype)
                      ELSE ContainedLinkType(call'.path[closest_a(call'.path)].url))]_vars

\* the names the path's custom data attributes give: the tracking keys that start with
\* prop, without it
CustomNames(path) ==
    {replace(key, prop) : key \in {key \in CarriedKeys(path) : startsWith(key, prop)}}

\* C25: the custom properties are layered last: every collected key of the custom-property
\* namespace is an output property named by the key without the prefix, in lower case, with
\* the collected value, also when the name is that of a generated property (element_id or a
\* link member).
C25_CustomLast ==
    [][(call'.op = "click" /\ tracked' # <<>>) =>
          \A key \in {key \in CarriedKeys(call'.path) : startsWith(key, prop)} :
             /\ toLowerCase(replace(key, prop)) \in DOMAIN tracked'[1].properties
             /\ tracked'[1].properties[toLowerCase(replace(key, prop))]
                   = JsString(ClosestValue(call'.path, key))]_vars

\* an emitted click on an anchor with id l to github.com whose custom properties are named
\* element_id, link_type and link_url: the three have the custom values
C25_Witness ==
    /\ call.op = "click" /\ tracked # <<>>
    /\ {element_id, link_type, link_url} \subseteq CustomNames(call.path)
    /\ call.path[Len(call.path)].id = <<"l">>
    /\ inferLinkType(call.path[Len(call.path)].url) = <<"s", "o", "c", "i", "a", "l">>
    /\ tracked[1].properties[element_id] = JsString(<<"h", "e", "r", "o">>)
    /\ tracked[1].properties[link_type] = JsString(<<"p", "r", "o", "m", "o">>)
    /\ tracked[1].properties[link_url] = JsString(<<"u">>)
    /\ tracked[1].properties[platform] = JsString(<<"g", "i", "t", "h", "u", "b">>)

\* C26: the click handler never throws: every click either emits through track or returns
\* without emitting, and when window.analytics is not there it makes no track call.
C26_NeverThrows ==
    [][HandlerRuns =>
          /\ ~ret'.thrown
          /\ analytics = 0 => tracked' = <<>>]_vars

\* the handler's exceptions come from decodeURIComponent alone: a click whose anchor has no
\* query value with a percent sign that two hexadecimal digits do not follow does not
\* throw, and without window.analytics no click makes a track call
C26_ThrowsOnlyDecoding ==
    [][HandlerRuns =>
          /\ ret'.thrown =>
                /\ closest_a(call'.path) # 0
                /\ \E i \in 1..Len(call'.path[closest_a(call'.path)].url.searchParams) :
                      decodeURIComponent(call'.path[closest_a(call'.path)].url.searchParams[i].value, 1).thrown
          /\ analytics = 0 => tracked' = <<>>]_vars

\* the nearest anchor of the document that is the element t or an ancestor of it; 0 if none
RECURSIVE NearestAnchor(_, _)
NearestAnchor(dom, t) ==
    IF t = 0 THEN 0
    ELSE IF dom.elements[t].tag = "a" THEN t
    ELSE NearestAnchor(dom, dom.parent[t])

\* element d of the document is below element t
RECURSIVE Below(_, _, _)
Below(dom, t, d) ==
    IF d = 0 THEN FALSE
    ELSE dom.parent[d] = t \/ Below(dom, t, dom.parent[d])

\* C30: for a link_click the anchor is resolved from the clicked element: an emitted event
\* has the destination of the nearest anchor that is the clicked element or an ancestor of
\* it, wherever the topmost marked element is, and a click with a marker and event type
\* link_click gets the no-valid-link warning exactly when there is no such anchor or it
\* has no destination; anchors below or beside the clicked element are not used.
C30_AnchorFromTarget ==
    [][(HandlerRuns /\ link_url \notin CustomNames(call'.path)) =>
          \A n \in {NearestAnchor(call'.dom, call'.target)} :
             /\ tracked' # <<>> =>
                   /\ n # 0
                   /\ tracked'[1].properties[link_url] = JsString(href(call'.dom.elements[n].url))
             /\ (/\ \E i \in 1..Len(call'.path) : Marked(call'.path[i])
                 /\ ResolvedEventType(call'.path) = link_click) =>
                   (ret'.val = NoValidLink <=>
                       (n = 0 \/ call'.dom.elements[IF n = 0 THEN 1 ELSE n].url = NoHref))]_vars

\* an emitted click on a label inside a marked container inside an anchor, with another
\* anchor below the label: the event has the outer anchor's destination
C30_Witness ==
    /\ call.op = "click" /\ tracked # <<>>
    /\ call.dom.elements[call.target].tag = "span"
    /\ NearestAnchor(call.dom, call.target) = 1
    /\ topTrackElement(call.path) = 2
    /\ \E d \in 1..Len(call.dom.elements) :
          /\ Below(call.dom, call.target, d)
          /\ call.dom.elements[d].tag = "a"
          /\ call.dom.elements[d].url # call.dom.elements[1].url
    /\ tracked[1].properties[link_url] = JsString(href(call.dom.elements[1].url))

\* a click on a label whose sibling is an anchor, under a marked container, with
\* window.analytics set: warned, nothing tracked
C30_Witness_Sibling ==
    /\ call.op = "click" /\ "handleClick" \in listeners /\ analytics # 0
    /\ NearestAnchor(call.dom, call.target) = 0
    /\ \E d \in 1..Len(call.dom.elements) :
          /\ call.dom.elements[d].tag = "a" /\ call.dom.elements[d].url # NoHref
          /\ call.dom.parent[d] = call.dom.parent[call.target]
    /\ tracked = <<>> /\ ret.val = NoValidLink

-----------------------------------------------------------------------------
(* Properties of initTinybirdAnalytics *)

\* the first of token, host and domain that the configuration does not give or gives
\* empty; "" when it gives the three
FirstMissing(config) ==
    IF config.token \in {Null, Some(<<>>)} THEN "token"
    ELSE IF config.host \in {Null, Some(<<>>)} THEN "host"
    ELSE IF config.domain \in {Null, Some(<<>>)} THEN "domain"
    ELSE ""

\* C27: initTinybirdAnalytics throws exactly when token, host or domain is missing or an
\* empty text, the error names the first of them in that order, and a call that throws
\* changes no state: window.analytics, the click tracker, the plugin's instance and the
\* storage are as before.
C27_ConfigErrorsFatal ==
    [][call'.op = "initTinybirdAnalytics" =>
          /\ ret'.thrown <=> FirstMissing(call'.config) # ""
          /\ ret'.thrown =>
                /\ ret'.val = Some(<<Ch("Tinybird Analytics requires a "), Ch(FirstMissing(call'.config))>>)
                /\ UNCHANGED <<analytics, initialized, listeners, added, created, pending, tinybird>>
                /\ UNCHANGED <<constructed, availableStores, media>>]_vars

\* a call with an empty token, no host and click tracking asked for, made while
\* window.analytics holds an instance and the tracker is not initialized: it threw for the
\* token and both are as they were
C27_Witness ==
    /\ call.op = "initTinybirdAnalytics" /\ ret.thrown
    /\ call.config.token = Some(<<>>) /\ call.config.host = Null
    /\ call.config.enableClickTracking
    /\ ret.val = Requires("token")
    /\ analytics = 1 /\ created = 1 /\ ~initialized /\ listeners = {}
    /\ tinybird.id = 1 /\ constructed

\* C28: last-initialized-wins: a successful initTinybirdAnalytics call returns a new
\* instance and leaves it in window.analytics, no other step changes the slot, so the
\* slot always holds the instance the most recent successful call returned; the slot holds
\* one instance, and a click is emitted to that instance alone.
C28_LastInitializedWins ==
    /\ [][/\ (call'.op = "initTinybirdAnalytics" /\ ~ret'.thrown) =>
                /\ created' = created + 1
                /\ ret'.val = Some(<<Num(created')>>)
                /\ analytics' = created'
          /\ ~(call'.op = "initTinybirdAnalytics" /\ ~ret'.thrown) => analytics' = analytics
          /\ \A i \in 1..Len(tracked') : tracked'[i].to = analytics']_vars
    /\ [](analytics = created)

\* a click emitted after two successful calls, the first instance's plugin initialized:
\* the event went to the second instance, which is in the slot
C28_Witness ==
    /\ created = 2 /\ analytics = 2
    /\ tinybird.id = 1
    /\ call.op = "click" /\ tracked # <<>> /\ tracked[1].to = 2

\* the element t of the document and its ancestors
RECURSIVE Ancestry(_, _)
Ancestry(dom, t) == IF t = 0 THEN {} ELSE {t} \cup Ancestry(dom, dom.parent[t])

\* the number of ancestors of element t
RECURSIVE Depth(_, _)
Depth(dom, t) == IF dom.parent[t] = 0 THEN 0 ELSE 1 + Depth(dom, dom.parent[t])

\* the elements from the topmost marked one of the ancestry of t down to t; none when no
\* element of the ancestry is marked
Contributors(dom, t) ==
    {i \in Ancestry(dom, t) :
        \E top \in Ancestry(dom, t) : Marked(dom.elements[top]) /\ Depth(dom, top) <= Depth(dom, i)}

\* the dataset entries with the tracking prefix of a set of elements
Entries(dom, S) ==
    UNION {{dom.elements[i].dataset[j] :
               j \in {j \in 1..Len(dom.elements[i].dataset) :
                         /\ Len(dom.elements[i].dataset[j].key) >= 5
                         /\ SubSeq(dom.elements[i].dataset[j].key, 1, 5) = track}} : i \in S}

\* C31: only the elements from the topmost marked ancestor down to the clicked element
\* contribute tracking attributes: every key of the collected data is a prefixed attribute
\* of one of them, with a value one of them gives it, every prefixed attribute of them is
\* collected, and the elements above, the elements off the path and the attributes without
\* the prefix give nothing.
C31_OnlyPathContributes ==
    [][HandlerRuns =>
          \A given \in {Entries(call'.dom, Contributors(call'.dom, call'.target))} :
             /\ DOMAIN collected' = {toLowerCase(SubSeq(d.key, 6, Len(d.key))) : d \in given}
             /\ \A key \in DOMAIN collected' :
                   \E d \in given : toLowerCase(SubSeq(d.key, 6, Len(d.key))) = key /\ d.value = collected'[key]]_vars

\* an emitted click on an anchor under a marked container, with a custom property on the
\* unmarked root, one on a marked sibling and attributes without the prefix: the marker,
\* the container's and the anchor's property are collected and nothing else
C31_Witness ==
    /\ call.op = "click" /\ tracked # <<>>
    /\ Len(call.dom.elements) = 4
    /\ Contributors(call.dom, call.target) = {2, 3}
    /\ call.target = 3
    /\ Entries(call.dom, {1}) # {} /\ Entries(call.dom, {4}) # {}
    /\ call.dom.parent[4] = call.dom.parent[3]
    /\ \E j \in 1..Len(call.dom.elements[3].dataset) : call.dom.elements[3].dataset[j].key = <<"r", "o", "l", "e">>
    /\ DOMAIN collected = {<<>>, <<"p", "r", "o", "p", "s", "e", "c", "t", "i", "o", "n">>, <<"p", "r", "o", "p", "i", "n", "n", "e", "r">>}
    /\ DOMAIN tracked[1].properties \cap {<<"o", "u", "t", "e", "r">>, <<"s", "i", "d", "e">>, <<"r", "o", "l", "e">>, <<"i", "d">>} = {}

\* C35: the plugin's initialize does nothing when window.tinybirdAnalytics exists: the
\* instance that sends the events, with its configuration and its storage manager, stays
\* the one the first initialization created, captureAttributionData runs only in the step
\* that creates it, and every successful initTinybirdAnalytics call puts a new instance in
\* window.analytics.
C35_FirstInstanceStays ==
    [][/\ tinybird.id # 0 =>
             /\ tinybird' = tinybird
             /\ call'.op \in {"plugin.initialize", "initTinybirdAnalytics"} =>
                   /\ availableStores' = availableStores
                   /\ media' = media
                   /\ smCalls' = IF call'.op = "plugin.initialize" THEN <<>> ELSE smCalls
       /\ call'.op = "plugin.initialize" /\ smCalls' # <<>> => tinybird.id = 0 /\ tinybird'.id # 0
       /\ call'.op = "plugin.initialize" /\ tinybird.id = 0 =>
             /\ tinybird' = Head(pending)
             /\ smCalls' # <<>>
       /\ call'.op = "initTinybirdAnalytics" /\ ~ret'.thrown =>
             /\ analytics' # analytics
             /\ analytics' = created' /\ created' = created + 1
             /\ analytics' = pending'[Len(pending')].id]_vars

\* the plugin of a second initTinybirdAnalytics call, made with another configuration, has
\* been initialized: the page instance is still the first one with the first configuration
\* while window.analytics is the second
C35_Witness ==
    /\ call.op = "plugin.initialize"
    /\ tinybird.id = 1 /\ analytics = 2 /\ created = 2 /\ pending = <<>>
    /\ call.config # tinybird.config
    /\ constructed
    /\ smCalls = <<>>

\* C36: the click handler reads window.analytics when the click happens: an emitted click
\* goes to the instance in the slot at that moment; before the first initialize() a click
\* emits nothing and warns of nothing; once one initTinybirdAnalytics call has enabled
\* click tracking, the one listener stays attached through every later call.
C36_HandleReadAtClickTime ==
    /\ [][/\ call'.op = "click" =>
                /\ \A i \in 1..Len(tracked') : tracked'[i].to = analytics /\ analytics # 0
                /\ Len(tracked') <= 1
                /\ ~initialized => tracked' = <<>> /\ ~warned' /\ ~ret'.thrown
          /\ initialized => initialized' /\ listeners' = listeners /\ added' = added
          /\ (call'.op = "initTinybirdAnalytics" /\ ~ret'.thrown /\ call'.config.enableClickTracking)
                => initialized' /\ listeners' = {"handleClick"}]_vars
    /\ [](/\ initialized <=> listeners = {"handleClick"}
          /\ initialized <=> added = 1
          /\ initialized <=> initializeCalls > 0
          /\ added <= 1)

\* the first call enabled click tracking, a second call with another configuration did
\* not: the listener of the first call is still the only one, and the click went to the
\* second instance
C36_Witness ==
    /\ call.op = "click" /\ tracked # <<>> /\ tracked[1].to = 2
    /\ analytics = 2 /\ created = 2
    /\ tinybird.id = 1 /\ tinybird.config.enableClickTracking
    /\ initializeCalls = 1 /\ added = 1 /\ listeners = {"handleClick"}

\* C33: read-your-writes across the chain: after a StorageManager.set of a non-empty value
\* has returned true, a get of the same key made at once, with every medium readable,
\* returns that value, whatever the chain and whichever stores refused the write.
C33_ReadYourWrites ==
    [][(call'.op = "set" /\ ret'.ok /\ call'.value # <<>>) =>
          StorageManager_get(availableStores', media', AllOk, now', call'.key).val = Some(call'.value)]_vars

-----------------------------------------------------------------------------
(* The memory fallback: every writer of the storage manager under every failure pattern *)

\* configurations with the memory fallback left to its default, enabled, disabled, and
\* with memory as a configured method
FallbackConfigs ==
    { ConfigOf("", FALSE, <<>>, "undefined"),
      ConfigOf("cookie", TRUE, <<"localStorage">>, "true"),
      ConfigOf("localStorage", TRUE, <<"cookie">>, "false"),
      ConfigOf("sessionStorage", TRUE, <<>>, "false"),
      ConfigOf("memory", TRUE, <<"sessionStorage">>, "false"),
      ConfigOf("localStorage", TRUE, <<"memory">>, "false") }

\* failure patterns of a write: none, the Web Storage media alone, every browser medium
\* (refusing, ignoring or denying the write)
FallbackEnvs == AttributionEnvs \cup {[m \in BrowserMedia |-> "nowrite"]}

\* a page address without and one with campaign parameters
FallbackLocations ==
    { Location(<<>>, <<Ch("/")>>, <<Ch("r")>>),
      Location(<<Param("utm_source", <<Ch("b")>>)>>, <<Ch("/")>>, <<Ch("r")>>) }

NextFallback ==
    \/ \E config \in FallbackConfigs : Construct(config, AllOk)
    \/ \E key \in Keys, value \in {<<>>, <<Ch("v")>>}, e \in FallbackEnvs : Set(key, value, NoOptions, e)
    \/ \E sessionId \in CallerIds(0), e \in FallbackEnvs : SetSessionId(sessionId, e)
    \/ \E location \in FallbackLocations, e \in FallbackEnvs : CaptureAttributionData(location, e)

SpecFallback == Init /\ [][NextFallback]_vars

\* the configuration puts the MemoryStore in the chain: the fallback is not disabled, or
\* memory is the primary method or one of the fallbacks
MemoryConfigured(config) ==
    \/ config.enableMemoryFallback # "false"
    \/ config.storage = "memory"
    \/ config.hasFallbacks /\ "memory" \in Range(config.storageFallbacks)

\* C34: with the memory fallback enabled (the default) StorageManager.set returns true
\* for every key and value whatever the other media do, so setSessionId and
\* setAttributionToStorage never log the warning; set returns false only under a
\* configuration that disables the fallback and names memory nowhere.
C34_MemoryFallbackNeverFails ==
    /\ [][call'.op = "construct" =>
             (MemoryConfigured(call'.manager) <=> "memory" \in Range(availableStores'))]_vars
    /\ [][/\ "memory" \in Range(availableStores) =>
                /\ call'.op = "set" => ret'.ok /\ ~ret'.thrown
                /\ call'.op \in {"setSessionId", "captureAttributionData"} =>
                      /\ ~warned'
                      /\ \A i \in 1..Len(smCalls') : smCalls'[i].op = "set" => smCalls'[i].ok
          /\ (call'.op = "set" /\ ~ret'.ok) => "memory" \notin Range(availableStores)
          /\ warned' => "memory" \notin Range(availableStores)
          /\ availableStores # <<>> => availableStores' = availableStores]_vars

\* default configuration, every browser medium refusing the write: the session writer's
\* set went down the whole chain to the MemoryStore and no warning was logged
C34_Witness ==
    /\ call.op = "setSessionId" /\ ~warned
    /\ availableStores = <<"localStorage", "sessionStorage", "cookie", "memory">>
    /\ Len(smCalls) = 1 /\ smCalls[1].op = "set" /\ smCalls[1].ok
    /\ \A m \in BrowserMedia : STORAGE_KEY \notin DOMAIN media[m]
    /\ STORAGE_KEY \in DOMAIN media["memory"]

\* fallback disabled and memory not configured: the only store refused and the warning
\* was logged
C34_Witness_Disabled ==
    /\ call.op = "setSessionId" /\ warned
    /\ "memory" \notin Range(availableStores)

\* the last getSessionId read a non-empty content under the session key that is no JSON
\* text or an object without the value or the expiry field
ReadCorrupt ==
    /\ call'.op = "getSessionId"
    /\ smCalls' # <<>> /\ smCalls'[1].op = "get" /\ Truthy(smCalls'[1].val)
    /\ ~parseSessionData(smCalls'[1].val.s).some

\* C40: corrupt session state heals itself: a getSessionId that finds a content it cannot
\* parse, or one without the value or expiry field, returns a new identifier and replaces
\* the content, so a getSessionId made right after returns the same identifier, for every
\* chain and every pattern of store failures.
C40_CorruptSelfHeals ==
    [][ReadCorrupt =>
          /\ uuids' = uuids + 1
          /\ ret'.val = Some(_uuidv4(uuids'))
          /\ getSessionId(availableStores', media', AllOk, now', uuids').val = ret'.val]_vars

\* the same with every store of the chain working during the call
C40_CorruptSelfHeals_NoFailure ==
    [][(ReadCorrupt /\ \A i \in 1..Len(smCalls') : smCalls'[i].op = "set" => StorageManager_get(availableStores', media', AllOk, now', STORAGE_KEY).val = Some(smCalls'[i].value)) =>
          /\ uuids' = uuids + 1
          /\ ret'.val = Some(_uuidv4(uuids'))
          /\ getSessionId(availableStores', media', AllOk, now', uuids').val = ret'.val]_vars

-----------------------------------------------------------------------------
(* tinybirdAnalytics(config): sendEvent, track, page *)

\* config.host, the slashes at its end counted apart
Host(origin, slashes) == [origin |-> origin, slashes |-> slashes]
NoHost == Host("", 0)

\* TinybirdAnalyticsConfig; "" is a field left out, NoHost a host left out
EngineConfig(token, host, proxy, proxyUrl, storage, stringifyPayload, globalAttributes, devMode) ==
    [token |-> token, host |-> host, proxy |-> proxy, proxyUrl |-> proxyUrl, storage |-> storage,
     stringifyPayload |-> stringifyPayload, globalAttributes |-> globalAttributes, devMode |-> devMode]

\* window.navigator and the time zone: the user agent, the language, the country of the
\* time zone ("" when the zone is unknown), and what navigator.sendBeacon does
Navigator(userAgent, locale, country, sendBeacon) ==
    [userAgent |-> userAgent, locale |-> locale, country |-> country, sendBeacon |-> sendBeacon]

\* the value undefined of an object member
JsonUndefined == [isNum |-> FALSE, n |-> 0, s |-> <<[c |-> "undefined", n |-> -1]>>]

\* String.prototype.repeat
RECURSIVE repeat(_, _)
repeat(text, n) ==
    IF n = 0 THEN ""
    ELSE IF n % 2 = 1 THEN text \o repeat(text \o text, n \div 2)
    ELSE repeat(text \o text, n \div 2)

\* the number of decimal digits of n
RECURSIVE Digits(_)
Digits(n) == IF n < 10 THEN 1 ELSE 1 + Digits(n \div 10)

\* the length of a text: a number is written in decimal, an identifier has 36 characters
RECURSIVE length(_, _)
length(text, i) ==
    IF i > Len(text) THEN 0
    ELSE (CASE text[i].c = "#" -> Digits(text[i].n)
            [] text[i].c \in {"uuid", "crypto"} -> 36
            [] OTHER -> Len(text[i].c)) + length(text, i + 1)

\* the length of the JSON text of a value
valueLength(v) == IF v.isNum THEN Digits(v.n) ELSE 2 + length(v.s, 1)

\* the length of the members "key":value of the JSON text of an object
RECURSIVE membersLength(_, _)
membersLength(o, keys) ==
    IF keys = {} THEN 0
    ELSE LET k == CHOOSE k \in keys : TRUE
         IN Len(k) + 3 + valueLength(o[k]) + membersLength(o, keys \ {k})

\* a JSON text of a flat object: its members and its length
Json(members) ==
    [members |-> members,
     length |-> 2 + membersLength(members, DOMAIN members)
                  + (IF DOMAIN members = {} THEN 0 ELSE Cardinality(DOMAIN members) - 1)]

\* JSON.stringify(object): members whose value is undefined are left out
JSON_stringify(o) == Json([k \in {k \in DOMAIN o : o[k] # JsonUndefined} |-> o[k]])

\* JSON.parse of the text of a flat object
JSON_parse_object(text) == text.members

attributesToMask ==
    {"username", "user", "password", "pass", "pin", "passcode", "token", "api_token", "email",
     "address", "phone", "sex", "gender", "payment", "credit_card"}

\* the lower-case form of a member name (flag i of the expression)
lowerCase(k) == IF k = "Email" THEN "email" ELSE IF k = "TOKEN" THEN "token" ELSE k

\* _maskSuspiciousAttributes(payload): in the JSON text, the value of every member named
\* in attributesToMask that is a non-empty string or a number becomes "********"
_maskSuspiciousAttributes(payload) ==
    Json([k \in DOMAIN JSON_stringify(payload).members |->
             IF /\ lowerCase(k) \in attributesToMask
                /\ (payload[k].isNum \/ payload[k].s # <<>>)
             THEN JsonStr(<<Ch("********")>>) ELSE payload[k]])

_isValidUserAgent(userAgent) == ~(userAgent # "" /\ Len(userAgent) > 500)

_isValidPayload(payloadStr) == ~(payloadStr.length < 2 \/ payloadStr.length > 10240)

\* crypto.randomUUID()
crypto_randomUUID(n) == <<[c |-> "crypto", n |-> n]>>

\* configWithDefaults = {...defaults, ...config} of the fields sendEvent reads
sendConfig(config) ==
    [config EXCEPT !.storage = IF config.storage = "" THEN "localStorage" ELSE config.storage]

\* the url of sendEvent
sendEvent_url(config) ==
    IF config.proxyUrl # "" THEN config.proxyUrl
    ELSE IF config.proxy # "" THEN config.proxy \o "/api/tracking"
    ELSE IF config.host.origin \o repeat("/", config.host.slashes) # ""
    THEN config.host.origin \o "/v0/events?name=analytics_events&token=" \o config.token
    ELSE "https://api.tinybird.co/v0/events?name=analytics_events&token=" \o config.token

\* what a sendEvent leaves: the media, the identifiers made, the storage calls, the
\* warning, and what was handed over (console.log, sendBeacon, XMLHttpRequest.send)
Sending(st, n, calls, warn, out) == [st |-> st, uuids |-> n, calls |-> calls, warned |-> warn, sent |-> out]

Handover(via, ok, url, tinybirdEvent) == [via |-> via, ok |-> ok, url |-> url, event |-> tinybirdEvent]

\* a transmission that posts the event after every beacon call
sendEvent_transmit_both(config, nav, tinybirdEvent) ==
    IF config.devMode THEN <<Handover("console", TRUE, "", tinybirdEvent)>>
    ELSE IF nav.sendBeacon = "missing"
    THEN <<Handover("xhr", TRUE, sendEvent_url(config), tinybirdEvent)>>
    ELSE <<Handover("beacon", nav.sendBeacon = "accepts", sendEvent_url(config), tinybirdEvent),
           Handover("xhr", TRUE, sendEvent_url(config), tinybirdEvent)>>

\* if (config.devMode) console.log(...) else sendBeacon(url, eventData) or the request
sendEvent_transmit(config, nav, tinybirdEvent) ==
    IF config.devMode THEN <<Handover("console", TRUE, "", tinybirdEvent)>>
    ELSE IF nav.sendBeacon = "missing"
    THEN <<Handover("xhr", TRUE, sendEvent_url(config), tinybirdEvent)>>
    ELSE IF nav.sendBeacon = "accepts"
    THEN <<Handover("beacon", TRUE, sendEvent_url(config), tinybirdEvent)>>
    ELSE <<Handover("beacon", FALSE, sendEvent_url(config), tinybirdEvent),
           Handover("xhr", TRUE, sendEvent_url(config), tinybirdEvent)>>

\* const sessionId = sessionManager.getSessionId() || crypto.randomUUID(), and the event
sendEvent_session(g, calls, warn, config, nav, t, eventName, payload) ==
    Sending(g.st, IF Truthy(g.val) THEN g.uuids ELSE g.uuids + 1, calls \o g.calls, warn \/ g.warned,
            sendEvent_transmit(config, nav,
                [timestamp |-> t, action |-> eventName, version |-> "1",
                 session_id |-> IF Truthy(g.val) THEN g.val.s ELSE crypto_randomUUID(g.uuids + 1),
                 payload |-> JSON_parse_object(payload), stringified |-> config.stringifyPayload]))

\* the processed payload as a JSON text: masked, then merged with the global attributes
\* and the storage method (stringifyPayload), or merged and then masked
sendEvent_process(config, eventData) ==
    IF config.stringifyPayload
    THEN JSON_stringify(
            Object_assign(Object_assign(JSON_parse_object(_maskSuspiciousAttributes(eventData)),
                                        config.globalAttributes),
                          [k \in {"storage"} |-> JsonStr(<<Ch(config.storage)>>)]))
    ELSE _maskSuspiciousAttributes(
            Object_assign(Object_assign(eventData, config.globalAttributes),
                          [k \in {"storage"} |-> JsonStr(<<Ch(config.storage)>>)]))

\* sendEvent once the session has been set: the validations, then the second read
sendEvent_validate(s, calls, warn, config, stores, e, t, nav, eventName, payload) ==
    IF ~_isValidUserAgent(nav.userAgent) \/ ~_isValidPayload(payload)
    THEN Sending(s.st, s.uuids, calls \o s.calls, warn \/ s.warned, <<>>)
    ELSE sendEvent_session(getSessionId(stores, s.st, e, t, s.uuids), calls \o s.calls, warn \/ s.warned,
                           config, nav, t, eventName, payload)

\* a sendEvent that validates before it touches the session
sendEvent_refresh_valid(g, config, stores, e, t, nav, eventName, eventData) ==
    IF ~_isValidUserAgent(nav.userAgent) \/ ~_isValidPayload(sendEvent_process(config, eventData))
    THEN Sending(g.st, g.uuids, g.calls, g.warned, <<>>)
    ELSE sendEvent_validate(
            setSessionId(stores, g.st, e, t, IF Truthy(g.val) THEN g.uuids ELSE g.uuids + 1,
                         IF Truthy(g.val) THEN g.val.s ELSE crypto_randomUUID(g.uuids + 1)),
            g.calls, g.warned, config, stores, e, t, nav, eventName, sendEvent_process(config, eventData))

\* a sendEvent that reads the session identifier and does not write it back
sendEvent_refresh_read(g, config, stores, e, t, nav, eventName, eventData) ==
    sendEvent_validate([g EXCEPT !.calls = <<>>, !.warned = FALSE],
                       g.calls, g.warned, config, stores, e, t, nav, eventName, sendEvent_process(config, eventData))

\* sessionManager.setSessionId(sessionManager.getSessionId() || crypto.randomUUID())
sendEvent_refresh(g, config, stores, e, t, nav, eventName, eventData) ==
    sendEvent_validate(
        setSessionId(stores, g.st, e, t, IF Truthy(g.val) THEN g.uuids ELSE g.uuids + 1,
                     IF Truthy(g.val) THEN g.val.s ELSE crypto_randomUUID(g.uuids + 1)),
        g.calls, g.warned, config, stores, e, t, nav, eventName, sendEvent_process(config, eventData))

\* sendEvent(eventName, event)
sendEvent(config, stores, st, e, t, n, nav, eventName, eventData) ==
    sendEvent_refresh(getSessionId(stores, st, e, t, n), config, stores, e, t, nav, eventName, eventData)

\* window.location.href
RECURSIVE searchText(_, _)
searchText(search, i) ==
    IF i > Len(search) THEN <<>>
    ELSE <<Ch(IF i = 1 THEN "?" ELSE "&"), Ch(search[i].name), Ch("=")>> \o search[i].value
         \o searchText(search, i + 1)

\* getCommonProperties(attributionManager) from the attribution record read
getCommonProperties(val, nav, location) ==
    Object_assign(
        [k \in {"user-agent", "locale", "location", "referrer", "pathname", "href"} |->
            CASE k = "user-agent" -> JsonStr(<<Ch(nav.userAgent)>>)
              [] k = "locale" -> JsonStr(<<Ch(nav.locale)>>)
              [] k = "location" -> IF nav.country = "" THEN JsonUndefined ELSE JsonStr(<<Ch(nav.country)>>)
              [] k = "referrer" -> JsonStr(location.referrer)
              [] k = "pathname" -> JsonStr(location.pathname)
              [] k = "href" -> JsonStr(<<Ch("https://example.com")>> \o location.pathname
                                       \o searchText(location.search, 1))],
        attributionProperties(val))

\* a track whose event properties come after the common ones
track_event_last(a, config, stores, e, t, n, nav, location, eventName, eventData) ==
    [sendEvent(config, stores, a.st, e, t, n, nav, eventName,
               Object_assign(getCommonProperties(a.val, nav, location), eventData))
        EXCEPT !.calls = a.calls \o @, !.warned = a.warned \/ @]

\* the body of track from the result a of getAttributionData()
track_event(a, config, stores, e, t, n, nav, location, eventName, eventData) ==
    [sendEvent(config, stores, a.st, e, t, n, nav, eventName,
               Object_assign(eventData, getCommonProperties(a.val, nav, location)))
        EXCEPT !.calls = a.calls \o @, !.warned = a.warned \/ @]

\* track(eventName, event)
track_call(config, stores, st, e, t, n, nav, location, eventName, eventData) ==
    track_event(getAttributionData(stores, st, e, t), config, stores, e, t, n, nav, location, eventName, eventData)

\* the checks of the factory: the message of the Error thrown, or none
tinybirdAnalytics_validate(config) ==
    IF config.token = "" /\ config.proxy = "" /\ config.proxyUrl = ""
    THEN Some(<<Ch("Tinybird analytics requires either token, proxy, or proxyUrl")>>)
    ELSE IF config.proxy # "" /\ config.proxyUrl # ""
    THEN Some(<<Ch("Both proxy and proxyUrl are specified. Please use only one of them.")>>)
    ELSE Null

\* bound on the identifiers made in the runs of the engine
MaxSendUuids == 3

\* tinybirdAnalytics(config) called by the page itself, at address `location`
TinybirdAnalytics(config, location, e) ==
    /\ ~constructed /\ tinybird.id = 0
    /\ IF ~tinybirdAnalytics_validate(config).isNull
       THEN /\ ret' = [NoRet EXCEPT !.thrown = TRUE, !.val = tinybirdAnalytics_validate(config)]
            /\ smCalls' = <<>>
            /\ warned' = FALSE
            /\ UNCHANGED <<tinybird, constructed, availableStores, media, established>>
       ELSE \E r \in {tinybirdAnalytics(config, media, e, now, location)} :
               /\ tinybird' = [id |-> 1, config |-> sendConfig(config)]
               /\ constructed' = TRUE
               /\ availableStores' = r.stores
               /\ media' = r.capture.st
               /\ smCalls' = r.capture.calls
               /\ warned' = r.capture.warned
               /\ established' = NoEstablished
               /\ ret' = NoRet
    /\ call' = [NoArgs EXCEPT !.op = "tinybirdAnalytics", !.location = location, !.e = e]
    /\ tried' = <<>>
    /\ tracked' = <<>>
    /\ collected' = EmptyMap
    /\ sent' = <<>>
    /\ UNCHANGED <<now, ticks, uuids>>
    /\ UNCHANGED <<initialized, listeners, added, initializeCalls, analytics, created, pending, setting>>

\* the identifier of the last record a sequence of storage calls wrote under the session key
RECURSIVE RefreshedId(_, _)
RefreshedId(calls, i) ==
    IF i = 0 THEN <<>>
    ELSE IF calls[i].op = "set" /\ calls[i].key = STORAGE_KEY
    THEN parseSessionData(calls[i].value).value.s
    ELSE RefreshedId(calls, i - 1)

\* history of the events: the identifier the last sendEvent wrote and when, since when
\* the sendEvent calls have written that identifier, and whether every store has worked
\* in every sendEvent so far
Refreshed(id, e) ==
    [some |-> TRUE, id |-> id, at |-> now,
     intact |-> Works(e) /\ (established.some => established.intact),
     since |-> IF established.some /\ established.id = id THEN established.since ELSE now]

\* what an operation of the instance leaves
Sent(r) ==
    /\ r.uuids <= MaxSendUuids
    /\ media' = r.st
    /\ uuids' = r.uuids
    /\ smCalls' = r.calls
    /\ warned' = r.warned
    /\ sent' = r.sent
    /\ ret' = NoRet
    /\ tried' = <<>>
    /\ tracked' = <<>>
    /\ collected' = EmptyMap
    /\ UNCHANGED <<constructed, availableStores, now, ticks>>
    /\ UNCHANGED <<initialized, listeners, added, initializeCalls, analytics, created, pending,
                   tinybird, setting>>

\* window.tinybirdAnalytics.sendEvent(eventName, event)
SendEvent(eventName, eventData, nav, e) ==
    /\ tinybird.id # 0 /\ constructed
    /\ \E r \in {sendEvent(tinybird.config, availableStores, media, e, now, uuids, nav, eventName, eventData)} :
          Sent(r)
    /\ established' = Refreshed(RefreshedId(smCalls', Len(smCalls')), e)
    /\ call' = [NoArgs EXCEPT !.op = "sendEvent", !.eventName = eventName, !.eventData = eventData,
                              !.nav = nav, !.e = e]

\* window.tinybirdAnalytics.track(eventName, event); page(event) is track('page_hit', event)
Track(eventName, eventData, nav, location, e) ==
    /\ tinybird.id # 0 /\ constructed
    /\ \E r \in {track_call(tinybird.config, availableStores, media, e, now, uuids, nav, location,
                            eventName, eventData)} :
          Sent(r)
    /\ established' = Refreshed(RefreshedId(smCalls', Len(smCalls')), e)
    /\ call' = [NoArgs EXCEPT !.op = "track", !.eventName = eventName, !.eventData = eventData,
                              !.nav = nav, !.location = location, !.e = e]

\* global attributes: none; names that clash with the caller's properties, the common
\* properties and the storage key, one of them suspicious
NoGlobals == EmptyMap
ClashingGlobals ==
    [k \in {"foo", "custom", "href", "storage", "email"} |->
        JsonStr(<<Ch(CASE k = "foo" -> "baz" [] k = "custom" -> "global" [] k = "href" -> "g-href"
                       [] k = "storage" -> "mine" [] k = "email" -> "g@x")>>)]

SendConfigs ==
    { EngineConfig("tok", NoHost, "", "", "cookie", TRUE, ClashingGlobals, FALSE),
      EngineConfig("tok", Host("https://h", 2), "", "", "", FALSE, ClashingGlobals, FALSE),
      EngineConfig("", NoHost, "https://p", "", "", TRUE, NoGlobals, TRUE),
      EngineConfig("", NoHost, "", "https://u/t", "", FALSE, NoGlobals, TRUE),
      EngineConfig("", NoHost, "", "", "", TRUE, NoGlobals, FALSE),
      EngineConfig("tok", NoHost, "https://p", "https://u/t", "", TRUE, NoGlobals, FALSE) }

\* an event of the caller whose names clash with the common properties, the global
\* attributes and the storage key, one of them suspicious
ClashingEvent ==
    [k \in {"custom", "href", "utm_source", "storage", "password", "foo"} |->
        JsonStr(<<Ch(CASE k = "custom" -> "data" [] k = "href" -> "mine" [] k = "utm_source" -> "caller"
                       [] k = "storage" -> "x" [] k = "password" -> "secret" [] k = "foo" -> "caller")>>)]

\* an event with a property too long for a payload
LongEvent == [k \in {"blob"} |-> JsonStr(<<Ch(repeat("x", 10300))>>)]

\* localStorage over its quota
QuotaExceeded == [m \in BrowserMedia |-> IF m = "localStorage" THEN "nowrite" ELSE "ok"]

Case(eventData, nav, e) == [eventData |-> eventData, nav |-> nav, e |-> e]

\* calls of sendEvent: events, user agents of 2, 500 and 501 characters, a beacon API
\* that accepts, refuses or is missing, with and without a write failure
SendCases ==
    { Case(ClashingEvent, Navigator("ua", "en", "ES", "accepts"), AllOk),
      Case(ClashingEvent, Navigator("ua", "en", "", "refuses"), QuotaExceeded),
      Case(EmptyMap, Navigator("ua", "en", "ES", "missing"), AllOk),
      Case(LongEvent, Navigator("ua", "en", "ES", "accepts"), AllOk),
      Case(ClashingEvent, Navigator(repeat("x", 501), "en", "ES", "accepts"), AllOk),
      Case(EmptyMap, Navigator(repeat("x", 500), "en", "ES", "refuses"), QuotaExceeded) }

\* calls of track and page
TrackCases ==
    { Case(ClashingEvent, Navigator("ua", "en", "ES", "accepts"), AllOk),
      Case(EmptyMap, Navigator("ua", "en", "", "refuses"), AllOk),
      Case(LongEvent, Navigator("ua", "en", "ES", "missing"), AllOk),
      Case(ClashingEvent, Navigator(repeat("x", 501), "en", "ES", "refuses"), QuotaExceeded) }

\* clock advances around the 30 minute session expiry
SendTickSteps == {SessionMs - 1000, SessionMs - 1, SessionMs + 1}

NextSend ==
    \/ \E config \in SendConfigs :
          TinybirdAnalytics(config, Location(<<Param("utm_source", <<Ch("b")>>)>>, <<Ch("/")>>, <<Ch("r")>>), AllOk)
    \/ \E d \in SendTickSteps : Tick(d)
    \/ \E c \in SendCases : SendEvent("custom_event", c.eventData, c.nav, c.e)
    \/ \E c \in TrackCases : Track("page_hit", c.eventData, c.nav, Location(<<>>, <<Ch("/p")>>, <<Ch("r")>>), c.e)

SpecSend == Init /\ [][NextSend]_vars

-----------------------------------------------------------------------------
(* Properties of sendEvent and track *)

\* the step is a sendEvent, made directly or by track or page
Sends == call'.op \in {"sendEvent", "track"}

\* the user agent or the payload of the call is beyond the limits: more than 500
\* characters, or a property that alone is longer than 10240 characters
Rejected ==
    \/ Len(call'.nav.userAgent) > 500
    \/ \E k \in DOMAIN call'.eventData : valueLength(call'.eventData[k]) > 10240

\* the user agent is within the limit and the properties of the caller are far below the
\* limit of the payload
Accepted ==
    /\ Len(call'.nav.userAgent) <= 500
    /\ membersLength(call'.eventData, DOMAIN call'.eventData) < 1000

\* the positions of the handovers of the last call made through `via`
Through(out, via) == {i \in 1..Len(out) : out[i].via = via}

\* C37: transmission has two branches and delivers an event at most once: in devMode
\* nothing goes to the network; otherwise the event is handed to the beacon API when
\* there is one, and posted by XMLHttpRequest if and only if the beacon API is missing or
\* refuses the data; no branch is taken twice.
C37_TwoBranchTransmission ==
    [][Sends =>
          /\ tinybird.config.devMode =>
                /\ Through(sent', "beacon") \cup Through(sent', "xhr") = {}
                /\ Accepted => Cardinality(Through(sent', "console")) = 1
          /\ (~tinybird.config.devMode /\ Accepted) =>
                /\ Through(sent', "console") = {}
                /\ Through(sent', "beacon") # {} <=> call'.nav.sendBeacon # "missing"
                /\ Through(sent', "xhr") # {} <=> call'.nav.sendBeacon \in {"missing", "refuses"}
                /\ \A i \in Through(sent', "beacon") :
                      /\ sent'[i].ok <=> call'.nav.sendBeacon = "accepts"
                      /\ \A j \in Through(sent', "xhr") : i < j
                /\ Cardinality({i \in 1..Len(sent') : sent'[i].ok}) = 1
          /\ \A via \in {"console", "beacon", "xhr"} : Cardinality(Through(sent', via)) <= 1
          /\ \A i, j \in 1..Len(sent') : sent'[i].event = sent'[j].event /\ sent'[i].url = sent'[j].url
          /\ Rejected => sent' = <<>>]_vars

\* the beacon API refused the event and it was posted once
C37_Witness ==
    /\ call.op \in {"sendEvent", "track"} /\ ~tinybird.config.devMode
    /\ call.nav.sendBeacon = "refuses"
    /\ Len(sent) = 2
    /\ sent[1].via = "beacon" /\ ~sent[1].ok
    /\ sent[2].via = "xhr" /\ sent[2].event = sent[1].event

\* devMode: the event was logged and nothing went to the network
C37_Witness_DevMode ==
    /\ call.op \in {"sendEvent", "track"} /\ tinybird.config.devMode
    /\ call.nav.sendBeacon = "accepts"
    /\ Len(sent) = 1 /\ sent[1].via = "console"

\* the identifier a sendEvent keeps: the one of the session record its first read finds,
\* when that record has not expired, otherwise a new one
KeptId ==
    IF /\ StoredSession(media, call'.e, now).some
       /\ ~isSessionExpired(StoredSession(media, call'.e, now), now)
    THEN StoredSession(media, call'.e, now).value.s
    ELSE _uuidv4(uuids + 1)

\* C38: an event rejected by the validation (user agent over 500 characters, payload over
\* 10240 characters) is never transmitted, and the session has been refreshed before the
\* validation: the call wrote the session record with expiry now + 30 minutes, and a
\* reader finds that record when no store refused the write.
C38_DroppedEventRefreshes ==
    [][(Sends /\ Rejected) =>
          /\ sent' = <<>>
          /\ Persisted(call'.e, KeptId, now + SessionMs, media', smCalls')
          /\ call'.e = AllOk => StoredSession(media', AllOk, now) = SessionRecord(KeptId, now + SessionMs)]_vars

\* an event with a user agent of 501 characters, sent 29 minutes 59 seconds after the
\* session began: nothing was handed over, and the session now ends 30 minutes from now
C38_Witness ==
    /\ call.op = "sendEvent" /\ Len(call.nav.userAgent) = 501 /\ call.e = AllOk
    /\ sent = <<>>
    /\ now = ClockStart + SessionMs - 1000 /\ uuids = 1
    /\ StoredSession(media, AllOk, now) = SessionRecord(_uuidv4(1), now + SessionMs)

\* the same for a payload over the limit
C38_Witness_Payload ==
    /\ call.op = "track" /\ Len(call.nav.userAgent) <= 500 /\ "blob" \in DOMAIN call.eventData
    /\ sent = <<>>
    /\ now > ClockStart
    /\ StoredSession(media, AllOk, now).expiry = JsonNum(now + SessionMs)

\* the properties a call hands to sendEvent besides the caller's: the common context and
\* attribution properties of track and page, none for a direct sendEvent
CommonOf(c, stores, st, t) ==
    IF c.op = "track"
    THEN getCommonProperties(getAttributionData(stores, st, c.e, t).val, c.nav, c.location)
    ELSE EmptyMap

\* the value of name k by precedence: the storage method, else the global attribute,
\* else the common property, else the caller's property
Strongest(k, caller, common, config) ==
    IF k = "storage" THEN JsonStr(<<Ch(config.storage)>>)
    ELSE IF k \in DOMAIN config.globalAttributes THEN config.globalAttributes[k]
    ELSE IF k \in DOMAIN common THEN common[k]
    ELSE caller[k]

\* the masking reaches name k: with stringifyPayload only the properties of the event are
\* masked, before the merge; without it the merged payload is masked
Masked(k, v, config) ==
    /\ lowerCase(k) \in attributesToMask
    /\ v.isNum \/ v.s # <<>>
    /\ config.stringifyPayload => k \notin DOMAIN config.globalAttributes

\* C39: every emitted payload contains every configured global attribute and the storage
\* key; each name of the caller's properties, the common context and attribution
\* properties, the global attributes and the storage key carries the value of the
\* strongest source that has it (caller < common < global attributes < storage method),
\* left out when that value is undefined and shown as ******** when the masking reaches it;
\* the payload has no other name.
C39_GlobalsAndPrecedence ==
    [][Sends =>
          \A common \in {CommonOf(call', availableStores, media, now)} :
             \A i \in 1..Len(sent') :
                /\ DOMAIN tinybird.config.globalAttributes \cup {"storage"} \subseteq DOMAIN sent'[i].event.payload
                /\ sent'[i].event.payload["storage"] = JsonStr(<<Ch(tinybird.config.storage)>>)
                /\ DOMAIN sent'[i].event.payload =
                      {k \in DOMAIN call'.eventData \cup DOMAIN common
                                \cup DOMAIN tinybird.config.globalAttributes \cup {"storage"} :
                          Strongest(k, call'.eventData, common, tinybird.config) # JsonUndefined}
                /\ \A k \in DOMAIN sent'[i].event.payload :
                      sent'[i].event.payload[k] =
                         IF Masked(k, Strongest(k, call'.eventData, common, tinybird.config), tinybird.config)
                         THEN JsonStr(<<Ch("********")>>)
                         ELSE Strongest(k, call'.eventData, common, tinybird.config)]_vars

\* a page event whose caller named custom, href, utm_source, storage and foo, sent by an
\* instance whose global attributes name foo, custom, href and storage, on a visit that
\* came from utm_source=b: the global attributes beat the caller and the common href, the
\* attribution beats the caller's utm_source, and storage is the configured method
C39_Witness ==
    /\ call.op = "track" /\ call.eventData = ClashingEvent
    /\ tinybird.config.globalAttributes = ClashingGlobals /\ tinybird.config.storage = "cookie"
    /\ Len(sent) = 1
    /\ sent[1].event.payload["foo"] = JsonStr(<<Ch("baz")>>)
    /\ sent[1].event.payload["custom"] = JsonStr(<<Ch("global")>>)
    /\ sent[1].event.payload["href"] = JsonStr(<<Ch("g-href")>>)
    /\ sent[1].event.payload["utm_source"] = JsonStr(<<Ch("b")>>)
    /\ sent[1].event.payload["storage"] = JsonStr(<<Ch("cookie")>>)
    /\ sent[1].event.payload["pathname"] = JsonStr(<<Ch("/p")>>)

\* a direct sendEvent: the caller's properties give way to the global attributes only
C39_Witness_SendEvent ==
    /\ call.op = "sendEvent" /\ call.eventData = ClashingEvent
    /\ tinybird.config.globalAttributes = ClashingGlobals /\ ~tinybird.config.stringifyPayload
    /\ Len(sent) = 2
    /\ sent[2].event.payload["custom"] = JsonStr(<<Ch("global")>>)
    /\ sent[2].event.payload["utm_source"] = JsonStr(<<Ch("caller")>>)
    /\ sent[2].event.payload["storage"] = JsonStr(<<Ch("localStorage")>>)

C32_Witness_Gap ==
    /\ call.op \in {"sendEvent", "track"} /\ established.some /\ established.intact
    /\ established.at = now /\ established.since = now /\ uuids = 2
    /\ Len(sent) >= 1 /\ sent[1].event.session_id = _uuidv4(2)

====
